---- MODULE Spec2Model ----
(***************************************************************************)
(* A model of the BMO learning platform AI service: the Redis-backed       *)
(* learner memory (agents/memory_manager.py), the safety validator         *)
(* (app/safety/safety_validator.py), the agent session                     *)
(* (agents/learning_orchestrator.py), the vector-store backup and restore  *)
(* (app/ingestion/vector_store.py), the S3 client                          *)
(* (app/storage/s3_client.py), the S3 document loaders                     *)
(* (app/ingestion/s3_document_loader.py, document_processor.py), the       *)
(* routes (app/api/routes.py, app/api/agent_routes.py) with the API-key    *)
(* dependency (app/api/deps.py, app/main.py), the agent tools              *)
(* (agents/tools.py) and concurrent updates of the learner memory.         *)
(***************************************************************************)
EXTENDS Integers, Sequences, FiniteSets, TLC

VARIABLES
    store,      \* Redis: learner id -> value stored under learner:<id>:context
    hist,       \* history: learner id -> every interaction passed to update_learner_progress
    settings,   \* the feature toggles of app/config/settings.py
    report,     \* the last call of the safety validator: its inputs and what it returned
    sess,       \* the orchestrate_learning_session call in progress or last finished
    fs,         \* the local file system: path -> what is there
    s3,         \* the backup bucket: key -> object
    restore,    \* the last restore_from_s3 call: its arguments and what it did
    snapshot,   \* the persist directory as it was when the object under the key was backed up
    objects,    \* the bucket of the S3 client: key -> content of the object
    local,      \* local files the S3 client reads and writes: path -> content
    s3call,     \* the last S3Client call: its arguments and what it did
    tmpfiles,   \* the number of files in the temporary directory
    loadcall,   \* the last call of an S3 loader: its arguments and what it did
    http,       \* the last POST /generate-lesson request: what was generated and the response
    gate,       \* the last HTTP request the application routed: the configured secret, the request and what became of it
    got,        \* the last get_learner_context call: the learner, what was stored and what it returned
    toolcall,   \* the last call of an agent tool: its arguments and what it returned
    workers     \* the update_learner_progress call each service worker is in: idle, or between its GET and its SET

vars == <<store, hist, settings, report, sess, fs, s3, restore, snapshot, objects, local, s3call, tmpfiles, loadcall, http, gate, got, toolcall, workers>>

(***************************************************************************)
(* Bounds of the model.                                                    *)
(***************************************************************************)
MaxSessions == 2       \* orchestrate_learning_session calls explored
recursion_limit == 7   \* steps after which the agent graph itself gives up
MaxUpdates == 4        \* update_learner_progress calls explored with the full input set
WindowUpdates == 12    \* calls explored with the small input set (overflows the window)

(***************************************************************************)
(* Exact rational numbers <<numerator, denominator>>, denominator > 0, in  *)
(* lowest terms.  They stand for the Python floats of the score arithmetic *)
(* (rounding is not modelled).                                             *)
(***************************************************************************)
RECURSIVE Gcd(_, _)
Gcd(a, b) == IF b = 0 THEN a ELSE Gcd(b, a % b)

Norm(n, d) == IF n = 0 THEN <<0, 1>> ELSE <<n \div Gcd(n, d), d \div Gcd(n, d)>>

RAdd(x, y) == Norm(x[1] * y[2] + y[1] * x[2], x[2] * y[2])

RMulInt(x, k) == Norm(x[1] * k, x[2])

RDivInt(x, k) == Norm(x[1], x[2] * k)

(***************************************************************************)
(* agents/memory_manager.py                                                *)
(***************************************************************************)
Learners == {"l1", "l2"}

NoEntry == [kind |-> "none"]                  \* redis GET returns None
Garbage == [kind |-> "text", text |-> "invalid json{"]  \* a value json.loads rejects
Json(ctx) == [kind |-> "json", ctx |-> ctx]   \* json.dumps(context)

\* The interactions the model passes to update_learner_progress.
ChatInteraction == [type |-> "chat", topic |-> "general", interaction |-> "request"]

Interactions ==
    { ChatInteraction,
      [type |-> "quiz", topic |-> "APR", score |-> <<9, 10>>],
      [type |-> "quiz", topic |-> "Interest Rates", score |-> <<3, 5>>],
      [type |-> "lesson", topic |-> "APR"],
      [type |-> "quiz", topic |-> "APR"],
      [type |-> "lesson", score |-> <<1, 1>>] }

WindowInteractions == { ChatInteraction, [type |-> "lesson", topic |-> "APR"] }

recent_window == 10

DefaultContext(learner_id) ==
    [ learner_id |-> learner_id,
      topics_covered |-> << >>,
      current_level |-> "beginner",
      performance_metrics |-> [average_score |-> <<0, 1>>, quizzes_taken |-> 0],
      preferences |-> [difficulty |-> "medium"],
      recent_interactions |-> << >> ]

\* A variant whose default context names a fixed learner.
get_learner_context_shared_default(st, learner_id) ==
    IF st[learner_id].kind = "json"
    THEN st[learner_id].ctx
    ELSE DefaultContext("l1")

\* get_learner_context: the stored context if it decodes, else the default.
get_learner_context(st, learner_id) ==
    IF st[learner_id].kind = "json"
    THEN st[learner_id].ctx
    ELSE DefaultContext(learner_id)

\* A variant that keeps the first ten entries instead of the last ten.
AppendRecentKeepsOldest(recent, interaction) ==
    LET r == Append(recent, interaction)
    IN  IF Len(r) > recent_window THEN SubSeq(r, 1, recent_window) ELSE r

\* context["recent_interactions"][-10:] after the append
AppendRecent(recent, interaction) ==
    LET r == Append(recent, interaction)
    IN  IF Len(r) > recent_window
        THEN SubSeq(r, Len(r) - recent_window + 1, Len(r))
        ELSE r

SeqToSet(s) == { s[k] : k \in 1..Len(s) }

\* A variant that appends the topic without looking for it first.
UpdateTopicsAlwaysAppends(topics, interaction) ==
    IF "topic" \in DOMAIN interaction THEN Append(topics, interaction.topic) ELSE topics

UpdateTopics(topics, interaction) ==
    IF "topic" \in DOMAIN interaction
    THEN IF interaction.topic \notin SeqToSet(topics)
         THEN Append(topics, interaction.topic)
         ELSE topics
    ELSE topics

IsScoredQuiz(interaction) ==
    /\ "type" \in DOMAIN interaction
    /\ interaction.type = "quiz"
    /\ "score" \in DOMAIN interaction

\* A variant that averages the old average with the new score.
UpdateMetricsHalves(pm, interaction) ==
    IF IsScoredQuiz(interaction)
    THEN [average_score |-> RDivInt(RAdd(pm.average_score, interaction.score), 2),
          quizzes_taken |-> pm.quizzes_taken + 1]
    ELSE pm

UpdateMetrics(pm, interaction) ==
    IF IsScoredQuiz(interaction)
    THEN LET current_avg == pm.average_score
             count == pm.quizzes_taken
             new_score == interaction.score
             new_avg == RDivInt(RAdd(RMulInt(current_avg, count), new_score), count + 1)
         IN  [average_score |-> new_avg, quizzes_taken |-> pm.quizzes_taken + 1]
    ELSE pm

\* The context update_learner_progress writes back for `interaction`.
UpdatedContext(context, interaction) ==
    [ context EXCEPT
        !.recent_interactions = AppendRecent(@, interaction),
        !.topics_covered = UpdateTopics(@, interaction),
        !.performance_metrics = UpdateMetrics(@, interaction) ]

TotalUpdates == Len(hist["l1"]) + Len(hist["l2"])

update_learner_progress(learner_id, interaction) ==
    LET context == get_learner_context(store, learner_id)
    IN  /\ store' = [store EXCEPT ![learner_id] = Json(UpdatedContext(context, interaction))]
        /\ hist' = [hist EXCEPT ![learner_id] = Append(@, interaction)]

\* A call of update_learner_progress from outside a session.
UpdateProgress(learner_id, interaction) ==
    /\ update_learner_progress(learner_id, interaction)
    /\ UNCHANGED <<settings, report, sess, fs, s3, restore, snapshot, objects, local, s3call, tmpfiles, loadcall, http, gate, got, toolcall, workers>>

\* A call of get_learner_context from outside a session: one redis GET, and
\* the value it returns.
GetLearnerContext(learner_id) ==
    /\ got' = [ kind |-> "get",
                learner_id |-> learner_id,
                stored |-> store[learner_id],
                returned |-> get_learner_context(store, learner_id) ]
    /\ UNCHANGED <<store, hist, settings, report, sess, fs, s3, restore, snapshot, objects, local, s3call, tmpfiles, loadcall, http, gate, toolcall, workers>>

(***************************************************************************)
(* Text: a string is a sequence of one-character strings.                  *)
(***************************************************************************)
LowerLetters == <<"a", "b", "c", "d", "e", "f", "g", "h", "i", "j", "k", "l", "m", "n", "o", "p", "q", "r", "s", "t", "u", "v", "w", "x", "y", "z">>

UpperLetters == <<"A", "B", "C", "D", "E", "F", "G", "H", "I", "J", "K", "L", "M", "N", "O", "P", "Q", "R", "S", "T", "U", "V", "W", "X", "Y", "Z">>

Digits == {"0", "1", "2", "3", "4", "5", "6", "7", "8", "9"}

Letters == SeqToSet(LowerLetters) \cup SeqToSet(UpperLetters)

WordChars == Letters \cup Digits \cup {"_"}          \* \w

Whitespace == {" "}                                    \* \s

\* str.lower()
ToLowerChar(c) ==
    IF \E k \in 1..26 : UpperLetters[k] = c
    THEN LowerLetters[CHOOSE k \in 1..26 : UpperLetters[k] = c]
    ELSE c

ToLower(text) == [k \in 1..Len(text) |-> ToLowerChar(text[k])]

\* `sub in text`
Contains(text, sub) ==
    \E i \in 1..(Len(text) - Len(sub) + 1) : SubSeq(text, i, i + Len(sub) - 1) = sub

(***************************************************************************)
(* Regular expressions of the re module, as far as the validator uses      *)
(* them: a pattern is a sequence of items, each a character class with a   *)
(* repetition range (max = -1: unbounded) or the word boundary \b.         *)
(***************************************************************************)
Cls(chars, min, max) == [kind |-> "class", chars |-> chars, min |-> min, max |-> max]

WordBoundary == [kind |-> "boundary"]

\* \b holds at position i (between text[i-1] and text[i])
AtBoundary(text, i) ==
    LET before == i > 1 /\ text[i - 1] \in WordChars
        after == i <= Len(text) /\ text[i] \in WordChars
    IN  before # after

\* the number of characters of the class in a row from position i, at most max
RECURSIVE RunLength(_, _, _, _)
RunLength(text, i, chars, max) ==
    IF max = 0 \/ i > Len(text) \/ text[i] \notin chars
    THEN 0
    ELSE 1 + RunLength(text, i + 1, chars, IF max = -1 THEN -1 ELSE max - 1)

\* The end positions (one past the last character) of the matches of items
\* k.. of the pattern that start at i, in the order the backtracking matcher
\* tries them (greedy: longest repetition first).
RECURSIVE MatchEnds(_, _, _, _)
RECURSIVE MatchRepeat(_, _, _, _, _)
MatchRepeat(re, k, text, i, n) ==
    IF n < re[k].min
    THEN << >>
    ELSE MatchEnds(re, k + 1, text, i + n) \o MatchRepeat(re, k, text, i, n - 1)

MatchEnds(re, k, text, i) ==
    IF k > Len(re) THEN <<i>>
    ELSE IF re[k].kind = "boundary"
         THEN IF AtBoundary(text, i) THEN MatchEnds(re, k + 1, text, i) ELSE << >>
         ELSE MatchRepeat(re, k, text, i, RunLength(text, i, re[k].chars, re[k].max))

\* re.search(pattern, text) finds a match
Search(re, text) ==
    \E i \in 1..(Len(text) + 1) : MatchEnds(re, 1, text, i) # << >>

\* re.sub(pattern, repl, text) from position i on, for a pattern that matches
\* no empty string: the leftmost match, the first one the matcher finds
\* there, is replaced and the scan goes on behind it.
RECURSIVE Sub(_, _, _, _)
Sub(re, repl, text, i) ==
    IF i > Len(text) THEN << >>
    ELSE LET ends == MatchEnds(re, 1, text, i)
         IN  IF ends # << >> /\ ends[1] > i
             THEN repl \o Sub(re, repl, text, ends[1])
             ELSE <<text[i]>> \o Sub(re, repl, text, i + 1)

\* r'\b[A-Za-z0-9._%+-]+@[A-Za-z0-9.-]+\.[A-Z|a-z]{2,}\b'
EmailPattern ==
    << WordBoundary,
       Cls(Letters \cup Digits \cup {".", "_", "%", "+", "-"}, 1, -1),
       Cls({"@"}, 1, 1),
       Cls(Letters \cup Digits \cup {".", "-"}, 1, -1),
       Cls({"."}, 1, 1),
       Cls(Letters \cup {"|"}, 2, -1),
       WordBoundary >>

\* r'\(?\d{3}\)?[-.\s]?\d{3}[-.\s]?\d{4}\b'
PhonePattern ==
    << Cls({"("}, 0, 1), Cls(Digits, 3, 3), Cls({")"}, 0, 1),
       Cls({"-", "."} \cup Whitespace, 0, 1), Cls(Digits, 3, 3),
       Cls({"-", "."} \cup Whitespace, 0, 1), Cls(Digits, 4, 4),
       WordBoundary >>

\* r'\b\d{3}-\d{2}-\d{4}\b'
SsnPattern ==
    << WordBoundary, Cls(Digits, 3, 3), Cls({"-"}, 1, 1), Cls(Digits, 2, 2),
       Cls({"-"}, 1, 1), Cls(Digits, 4, 4), WordBoundary >>

\* r'\b\d{4}[-\s]?\d{4}[-\s]?\d{4}[-\s]?\d{4}\b'
CreditCardPattern ==
    << WordBoundary, Cls(Digits, 4, 4), Cls({"-"} \cup Whitespace, 0, 1),
       Cls(Digits, 4, 4), Cls({"-"} \cup Whitespace, 0, 1),
       Cls(Digits, 4, 4), Cls({"-"} \cup Whitespace, 0, 1),
       Cls(Digits, 4, 4), WordBoundary >>

\* r'\b\d{3}[-.\s]\d{4}\b', the second phone pattern of sanitize_content
ShortPhonePattern ==
    << WordBoundary, Cls(Digits, 3, 3), Cls({"-", "."} \cup Whitespace, 1, 1),
       Cls(Digits, 4, 4), WordBoundary >>

(***************************************************************************)
(* app/safety/safety_validator.py                                          *)
(***************************************************************************)
\* The contents the model validates.
CleanText == <<"s", "a", "f", "e", " ", "t", "e", "x", "t">>
EmailText == <<"m", "a", "i", "l", " ", "a", ".", "b", "@", "x", ".", "c", "o", " ", "n", "o", "w">>
PhoneText == <<"c", "a", "l", "l", " ", "(", "5", "5", "5", ")", " ", "1", "2", "3", "-", "4", "5", "6", "7">>
SsnText == <<"s", "s", "n", " ", "1", "2", "3", "-", "4", "5", "-", "6", "7", "8", "9", ".">>
CardText == <<"4", "1", "1", "1", "-", "1", "1", "1", "1", " ", "1", "1", "1", "1", " ", "1", "1", "1", "1">>
MixedText == <<"x", "@", "y", ".", "o", "r", "g", " ", "1", "2", "3", "-", "4", "5", "-", "6", "7", "8", "9">>

ShortPhoneText == <<"5", "5", "5", "-", "1", "2", "3", "4">>
SsnThenDigitsText == <<"1", "2", "3", "-", "4", "5", "-", "6", "7", "8", "9", " ", "0", "1", "2", " ", "3", "4", "5", "6">>
SsnTwiceText == <<"x", "1", "2", "3", "-", "4", "5", "-", "6", "7", "8", "9", " ", "1", "2", "3", "-", "4", "5", "-", "6", "7", "8", "9">>

Contents ==
    { CleanText, EmailText, PhoneText, SsnText, CardText, MixedText, << >>,
      ShortPhoneText, SsnThenDigitsText, SsnTwiceText }

\* The lessons the generator's chain returns: the JSON object the LLM wrote,
\* with or without its 'content' and 'scenario' keys.
LessonTexts == {CleanText, SsnText, ShortPhoneText}

Lessons == UNION { [keys -> LessonTexts] : keys \in SUBSET {"content", "scenario"} }

\* lesson.get(key, '')
Get(lesson, key) == IF key \in DOMAIN lesson THEN lesson[key] ELSE << >>

\* f"{lesson.get('content', '')} {lesson.get('scenario', '')}"
content_to_validate(lesson) == Get(lesson, "content") \o <<" ">> \o Get(lesson, "scenario")

\* Every text the model hands to the validator.
ValidatedTexts == Contents \cup { content_to_validate(lesson) : lesson \in Lessons }

_detect_pii_list(text) ==
    IF text = << >> THEN << >>
    ELSE (IF Search(EmailPattern, text) THEN <<"email">> ELSE << >>)
         \o (IF Search(PhonePattern, text) THEN <<"phone">> ELSE << >>)
         \o (IF Search(SsnPattern, text) THEN <<"ssn">> ELSE << >>)
         \o (IF Search(CreditCardPattern, text) THEN <<"credit_card">> ELSE << >>)

\* _detect_pii_list of each content of the model, computed once.
PiiOfContents == [c \in ValidatedTexts |-> _detect_pii_list(c)]

Redacted == <<"[", "R", "E", "D", "A", "C", "T", "E", "D", "]">>

\* sanitize_content(content): emails, phone numbers (two patterns), SSNs and
\* credit cards are replaced in this order, each pass working on the output
\* of the pass before.
sanitize_content(content) ==
    LET emails == Sub(EmailPattern, Redacted, content, 1)
        phones == Sub(PhonePattern, Redacted, emails, 1)
        short_phones == Sub(ShortPhonePattern, Redacted, phones, 1)
        ssns == Sub(SsnPattern, Redacted, short_phones, 1)
        cards == Sub(CreditCardPattern, Redacted, ssns, 1)
    IN  cards

\* sanitize_content of each content of the model, computed once.
SanitizedContents == [c \in Contents |-> sanitize_content(c)]

\* What the moderation endpoint does with a request: it fails, or it answers
\* with a flagged bit and the set of categories it marks true.
Raises == [kind |-> "raises"]

ModerationCategories == {"hate", "violence"}

ModerationOutcomes ==
    {Raises} \cup
    { [kind |-> "result", flagged |-> f, categories |-> c] :
        f \in BOOLEAN, c \in SUBSET ModerationCategories }

\* result.categories.model_dump().items() keeps the order of the model's fields
CategoryOrder == <<"hate", "violence">>

FlaggedCategories(cats) ==
    SelectSeq(CategoryOrder, LAMBDA c : c \in cats)

_check_moderation(outcome) ==
    IF outcome.kind = "raises"
    THEN [flagged |-> FALSE, categories |-> << >>]
    ELSE [flagged |-> outcome.flagged,
          categories |-> IF outcome.flagged
                         THEN FlaggedCategories(outcome.categories)
                         ELSE << >>]

_check_content_moderation(outcome) == _check_moderation(outcome).flagged

\* What the judge LLM does with a request: it fails, or it answers with a text.
JudgeOutcomes ==
    {Raises} \cup
    { [kind |-> "result", content |-> c] :
        c \in { <<"\"", "p", "a", "s", "s", "e", "d", "\"", ":", " ", "t", "r", "u", "e">>, <<"\"", "p", "a", "s", "s", "e", "d", "\"", ":", " ", "f", "a", "l", "s", "e">>, <<"F", "A", "L", "S", "E">>, <<"T", "r", "u", "e">>, <<"n", "o">> } }

NotCalled == [kind |-> "not_called"]

\* A variant that treats a failed judge call as a violation.
_constitutional_check_fail_closed(outcome) ==
    IF outcome.kind = "raises"
    THEN [passed |-> FALSE, violations |-> <<"Constitutional check failed">>]
    ELSE LET response_text == ToLower(outcome.content)
             passed == Contains(response_text, <<"t", "r", "u", "e">>) \/ Contains(response_text, <<"p", "a", "s", "s", "e", "d">>)
         IN  [passed |-> passed,
              violations |-> IF passed THEN << >> ELSE <<"Constitutional check failed">>]

_constitutional_check(outcome) ==
    IF outcome.kind = "raises"
    THEN [passed |-> TRUE, violations |-> << >>]
    ELSE LET response_text == ToLower(outcome.content)
             passed == Contains(response_text, <<"t", "r", "u", "e">>) \/ Contains(response_text, <<"p", "a", "s", "s", "e", "d">>)
         IN  [passed |-> passed,
              violations |-> IF passed THEN << >> ELSE <<"Constitutional check failed">>]

\* An entry of the issues list: a message, and for f"PII detected: {...}"
\* the joined PII types.
Issue(message) == [text |-> message]

Issues(messages) == [k \in 1..Len(messages) |-> Issue(messages[k])]

PiiIssue(pii_found) == [text |-> "PII detected", types |-> pii_found]

\* A variant in which a flagged moderation result is recorded but does not
\* fail the report.
validate_content_ignores_moderation(content, moderationOutcome, judgeOutcome, cfg) ==
    LET pii_found == PiiOfContents[content]
        moderation == _check_moderation(moderationOutcome)
        constitutional == _constitutional_check(judgeOutcome)
        pii == cfg.enable_pii_detection /\ pii_found # << >>
        con == cfg.enable_constitutional_ai /\ ~constitutional.passed
    IN  [ passed |-> ~pii /\ ~con,
          pii_detected |-> pii,
          moderation_flagged |-> moderation.flagged,
          constitutional_ai_passed |-> ~con,
          issues |-> (IF pii THEN <<PiiIssue(pii_found)>> ELSE << >>)
                     \o (IF moderation.flagged THEN Issues(moderation.categories) ELSE << >>)
                     \o (IF con THEN Issues(constitutional.violations) ELSE << >>) ]

validate_content(content, moderationOutcome, judgeOutcome, cfg) ==
    LET results0 == [ passed |-> TRUE,
                      pii_detected |-> FALSE,
                      moderation_flagged |-> FALSE,
                      constitutional_ai_passed |-> TRUE,
                      issues |-> << >> ]
        \* PII detection
        pii_found == PiiOfContents[content]
        results1 ==
            IF cfg.enable_pii_detection /\ pii_found # << >>
            THEN [results0 EXCEPT !.passed = FALSE,
                                  !.pii_detected = TRUE,
                                  !.issues = Append(@, PiiIssue(pii_found))]
            ELSE results0
        \* content moderation
        moderation == _check_moderation(moderationOutcome)
        results2 ==
            IF moderation.flagged
            THEN [results1 EXCEPT !.passed = FALSE,
                                  !.moderation_flagged = TRUE,
                                  !.issues = @ \o Issues(moderation.categories)]
            ELSE results1
        \* constitutional AI
        constitutional == _constitutional_check(judgeOutcome)
        results3 ==
            IF cfg.enable_constitutional_ai /\ ~constitutional.passed
            THEN [results2 EXCEPT !.passed = FALSE,
                                  !.constitutional_ai_passed = FALSE,
                                  !.issues = @ \o Issues(constitutional.violations)]
            ELSE results2
    IN  results3

AllSettings ==
    [enable_pii_detection : BOOLEAN, enable_constitutional_ai : BOOLEAN]

DefaultSettings ==
    [enable_pii_detection |-> TRUE, enable_constitutional_ai |-> TRUE]

NoCall == [kind |-> "none"]

ValidateContent(content, moderationOutcome, judgeOutcome) ==
    /\ report' = [ kind |-> "validate_content",
                   content |-> content,
                   moderation |-> moderationOutcome,
                   judge |-> IF settings.enable_constitutional_ai
                             THEN judgeOutcome ELSE NotCalled,
                   results |-> validate_content(content, moderationOutcome,
                                                judgeOutcome, settings) ]
    /\ UNCHANGED <<store, hist, settings, sess, fs, s3, restore, snapshot, objects, local, s3call, tmpfiles, loadcall, http, gate, got, toolcall, workers>>

CheckContentModeration(moderationOutcome) ==
    /\ report' = [ kind |-> "_check_content_moderation",
                   moderation |-> moderationOutcome,
                   result |-> _check_content_moderation(moderationOutcome) ]
    /\ UNCHANGED <<store, hist, settings, sess, fs, s3, restore, snapshot, objects, local, s3call, tmpfiles, loadcall, http, gate, got, toolcall, workers>>

SanitizeContent(content) ==
    /\ report' = [ kind |-> "sanitize_content",
                   content |-> content,
                   result |-> SanitizedContents[content] ]
    /\ UNCHANGED <<store, hist, settings, sess, fs, s3, restore, snapshot, objects, local, s3call, tmpfiles, loadcall, http, gate, got, toolcall, workers>>

InitSafety == report = NoCall

NextSafety ==
    \/ \E c \in Contents, m \in ModerationOutcomes, j \in JudgeOutcomes :
           ValidateContent(c, m, j)
    \/ \E m \in ModerationOutcomes : CheckContentModeration(m)
    \/ \E c \in Contents : SanitizeContent(c)

(***************************************************************************)
(* agents/learning_orchestrator.py                                         *)
(***************************************************************************)
agent_max_iterations == 5

Idle == [pc |-> "idle", sessions |-> 0]

\* orchestrate_learning_session(learner_id, request) is called.
StartSession(learner_id) ==
    /\ sess.pc \in {"idle", "done"}
    /\ sess.sessions < MaxSessions
    /\ sess' = [ pc |-> "get_context",
                 sessions |-> sess.sessions + 1,
                 learner_id |-> learner_id,
                 iterations |-> 0 ]
    /\ UNCHANGED <<store, hist, settings, report, fs, s3, restore, snapshot, objects, local, s3call, tmpfiles, loadcall, http, gate, got, toolcall, workers>>

\* context = await self.memory_manager.get_learner_context(learner_id), which
\* returns; the call stands before the try block.
GetContextReturns ==
    /\ sess.pc = "get_context"
    /\ sess' = [sess EXCEPT !.pc = "streaming"]
    /\ UNCHANGED <<store, hist, settings, report, fs, s3, restore, snapshot, objects, local, s3call, tmpfiles, loadcall, http, gate, got, toolcall, workers>>

\* ... or redis_client.get raises (connection refused, timeout): nothing
\* catches it and the exception leaves orchestrate_learning_session.
GetContextRaises ==
    /\ sess.pc = "get_context"
    /\ sess' = [ pc |-> "done",
                 sessions |-> sess.sessions,
                 learner_id |-> sess.learner_id,
                 iterations |-> sess.iterations,
                 outcome |-> [kind |-> "exception", error |-> "redis"] ]
    /\ UNCHANGED <<store, hist, settings, report, fs, s3, restore, snapshot, objects, local, s3call, tmpfiles, loadcall, http, gate, got, toolcall, workers>>

\* The agent graph yields a chunk in which the LLM asks for a tool call: the
\* loop `async for chunk in self.agent_graph.astream(...)` goes round again.
\* astream is given no config, so no cap of this code applies.
AgentToolCall ==
    /\ sess.pc = "streaming"
    /\ sess.iterations < recursion_limit
    /\ sess' = [sess EXCEPT !.iterations = @ + 1]
    /\ UNCHANGED <<store, hist, settings, report, fs, s3, restore, snapshot, objects, local, s3call, tmpfiles, loadcall, http, gate, got, toolcall, workers>>

ErrorResult(error) ==
    [ kind |-> "result",
      response |-> "I apologize, but I encountered an error processing your request. Please try again.",
      error |-> error,
      status |-> "error" ]

\* astream raises (the LLM call or a tool fails, or the graph's own recursion
\* limit is reached): the except clause returns the error result.
AgentRaises ==
    /\ sess.pc = "streaming"
    /\ sess' = [ pc |-> "done",
                 sessions |-> sess.sessions,
                 learner_id |-> sess.learner_id,
                 iterations |-> sess.iterations,
                 outcome |-> ErrorResult(IF sess.iterations = recursion_limit
                                         THEN "recursion limit" ELSE "agent") ]
    /\ UNCHANGED <<store, hist, settings, report, fs, s3, restore, snapshot, objects, local, s3call, tmpfiles, loadcall, http, gate, got, toolcall, workers>>

\* The stream ends; output is the last message, or the apology when the
\* stream carried no messages.
AgentFinishes(output) ==
    /\ sess.pc = "streaming"
    /\ sess.iterations < recursion_limit
    /\ sess' = [ pc |-> "record",
                 sessions |-> sess.sessions,
                 learner_id |-> sess.learner_id,
                 iterations |-> sess.iterations,
                 output |-> output ]
    /\ UNCHANGED <<store, hist, settings, report, fs, s3, restore, snapshot, objects, local, s3call, tmpfiles, loadcall, http, gate, got, toolcall, workers>>

\* The success result returned without the update having been made.
RecordReturnsWithoutWrite ==
    /\ sess.pc = "record"
    /\ sess' = [ pc |-> "done",
                 sessions |-> sess.sessions,
                 learner_id |-> sess.learner_id,
                 iterations |-> sess.iterations,
                 outcome |-> [ kind |-> "result",
                               response |-> sess.output,
                               learner_id |-> sess.learner_id,
                               status |-> "success" ] ]
    /\ UNCHANGED <<store, hist, settings, report, fs, s3, restore, snapshot, objects, local, s3call, tmpfiles, loadcall, http, gate, got, toolcall, workers>>

\* update_learner_progress records the chat and the success result is returned.
RecordReturns ==
    /\ sess.pc = "record"
    /\ update_learner_progress(sess.learner_id, ChatInteraction)
    /\ sess' = [ pc |-> "done",
                 sessions |-> sess.sessions,
                 learner_id |-> sess.learner_id,
                 iterations |-> sess.iterations,
                 outcome |-> [ kind |-> "result",
                               response |-> sess.output,
                               learner_id |-> sess.learner_id,
                               status |-> "success" ] ]
    /\ UNCHANGED <<settings, report, fs, s3, restore, snapshot, objects, local, s3call, tmpfiles, loadcall, http, gate, got, toolcall, workers>>

\* ... or a Redis call of update_learner_progress raises (its GET or its SET):
\* nothing is written and the except clause returns the error result.
RecordRaises ==
    /\ sess.pc = "record"
    /\ sess' = [ pc |-> "done",
                 sessions |-> sess.sessions,
                 learner_id |-> sess.learner_id,
                 iterations |-> sess.iterations,
                 outcome |-> ErrorResult("redis") ]
    /\ UNCHANGED <<store, hist, settings, report, fs, s3, restore, snapshot, objects, local, s3call, tmpfiles, loadcall, http, gate, got, toolcall, workers>>

\* app/api/agent_routes.py
\* The fields AgentChatResponse requires.
AgentChatResponseFields == {"response", "learner_id", "status"}

\* A variant that answers with whatever the orchestrator returned.
agent_chat_passes_result(outcome) ==
    IF outcome.kind = "exception"
    THEN [status |-> 500, detail |-> outcome.error]
    ELSE [ status |-> 200,
           body |-> [f \in DOMAIN outcome \ {"kind"} |-> outcome[f]] ]

\* agent_chat(request), given how LearningOrchestrator() and
\* orchestrate_learning_session ended: an exception is answered 500;
\* AgentChatResponse(**result) raises ValidationError when a required field
\* is missing, which the same except clause answers 500, and drops the
\* fields it does not declare.
agent_chat(outcome) ==
    IF outcome.kind = "exception"
    THEN [status |-> 500, detail |-> outcome.error]
    ELSE IF AgentChatResponseFields \ DOMAIN outcome # {}
    THEN [status |-> 500, detail |-> "ValidationError"]
    ELSE [ status |-> 200,
           body |-> [f \in AgentChatResponseFields |-> outcome[f]] ]

\* POST /agent/chat whose orchestrator call has ended answers.
AgentChatResponds ==
    /\ sess.pc = "done"
    /\ http' = [ kind |-> "agent_chat", outcome |-> sess.outcome,
                 response |-> agent_chat(sess.outcome) ]
    /\ UNCHANGED <<store, hist, settings, report, sess, fs, s3, restore, snapshot, objects, local, s3call, tmpfiles, loadcall, gate, got, toolcall, workers>>

\* POST /agent/chat whose LearningOrchestrator() raises (no API key for the
\* model, a bad Redis URL): no session starts.
AgentChatInitRaises ==
    /\ sess.pc \in {"idle", "done"}
    /\ http' = [ kind |-> "agent_chat",
                 outcome |-> [kind |-> "exception", error |-> "init"],
                 response |-> agent_chat([kind |-> "exception", error |-> "init"]) ]
    /\ UNCHANGED <<store, hist, settings, report, sess, fs, s3, restore, snapshot, objects, local, s3call, tmpfiles, loadcall, gate, got, toolcall, workers>>

Outputs == {"last message", "I apologize, but I couldn't process your request."}

NextSession ==
    \/ \E l \in Learners : StartSession(l)
    \/ GetContextReturns
    \/ GetContextRaises
    \/ AgentToolCall
    \/ AgentRaises
    \/ \E o \in Outputs : AgentFinishes(o)
    \/ RecordReturns
    \/ RecordRaises
    \/ AgentChatResponds
    \/ AgentChatInitRaises

(***************************************************************************)
(* Paths.  A path is a sequence of components and a component a string (a  *)
(* sequence of characters), so that str(path) and str.startswith can be    *)
(* computed as the code computes them.                                     *)
(***************************************************************************)
Up == <<".", ".">>                  \* the component ".."

\* Path.resolve() of an absolute path: ".." steps to the parent
RECURSIVE ResolveFrom(_, _)
ResolveFrom(done, rest) ==
    IF rest = << >> THEN done
    ELSE IF Head(rest) = Up
         THEN ResolveFrom(IF done = << >> THEN done ELSE SubSeq(done, 1, Len(done) - 1),
                          Tail(rest))
         ELSE ResolveFrom(Append(done, Head(rest)), Tail(rest))

Resolve(path) == ResolveFrom(<< >>, path)

\* str() of an absolute path
RECURSIVE PathStr(_)
PathStr(path) ==
    IF path = << >> THEN << >>
    ELSE <<"/">> \o Head(path) \o PathStr(Tail(path))

\* text.startswith(prefix)
StartsWith(text, prefix) ==
    Len(prefix) <= Len(text) /\ SubSeq(text, 1, Len(prefix)) = prefix

\* path is dir or lies below it
IsUnder(path, dir) ==
    Len(dir) <= Len(path) /\ SubSeq(path, 1, Len(dir)) = dir

(***************************************************************************)
(* app/ingestion/vector_store.py: backup and restore                       *)
(***************************************************************************)
\* settings.chroma_persist_directory = "./data/chroma", with the service
\* running in /app
PersistPath == << <<"a", "p", "p">>, <<"d", "a", "t", "a">>, <<"c", "h", "r", "o", "m", "a">> >>

\* extract_dir = persist_path.parent
ExtractDir == SubSeq(PersistPath, 1, Len(PersistPath) - 1)

IndexFile == <<"i", "n", "d", "e", "x">>          \* files Chroma keeps in the persist directory
SegmentFile == <<"s", "e", "g">>

\* Relative names an archive member can have.
NameDir == << <<"c", "h", "r", "o", "m", "a">> >>
NameIndex == << <<"c", "h", "r", "o", "m", "a">>, IndexFile >>
NameSegment == << <<"c", "h", "r", "o", "m", "a">>, SegmentFile >>
NameSibling == << <<"u", "p", "l", "o", "a", "d", "s">>, IndexFile >>          \* below data/, beside chroma/
NamePrefixed == << Up, <<"d", "a", "t", "a", "2">>, IndexFile >>     \* ../data2/...: beside data/
NameOutside == << Up, <<"e", "t", "c">>, IndexFile >>      \* ../etc/...

MemberNames == {NameDir, NameIndex, NameSegment, NameSibling, NamePrefixed, NameOutside}

\* member_path = Path(extract_dir) / member.name, resolved
MemberPath(name) == Resolve(ExtractDir \o name)

\* Every place of the file system the model looks at.
FsPaths == { MemberPath(n) : n \in MemberNames }

Absent == "absent"
Dir == "dir"
FileVersions == {"v1", "v2"}       \* contents of a file

Exists(f, path) == f[path] # Absent

\* A variant of rmtree that leaves the files of the tree where they are.
RmTreeKeepsFiles(f, dir) == f

\* shutil.rmtree(persist_path)
RmTree(f, dir) == [p \in FsPaths |-> IF IsUnder(p, dir) THEN Absent ELSE f[p]]

\* Writing one file creates its missing parent directories.
WriteFile(f, path, content) ==
    [p \in FsPaths |->
        IF p = path THEN content
        ELSE IF p = PersistPath /\ IsUnder(path, PersistPath) /\ f[p] = Absent THEN Dir
        ELSE f[p]]

MakeDir(f, path) == [f EXCEPT ![path] = Dir]

FileMember(name, content) == [name |-> name, type |-> "file", content |-> content]

DirMember(name) == [name |-> name, type |-> "dir"]

\* tar.add(self.persist_directory, arcname=Path(self.persist_directory).name):
\* the directory, then the files in it
ArchiveOf(f) ==
    <<DirMember(NameDir)>>
    \o (IF Exists(f, MemberPath(NameIndex))
        THEN <<FileMember(NameIndex, f[MemberPath(NameIndex)])>> ELSE << >>)
    \o (IF Exists(f, MemberPath(NameSegment))
        THEN <<FileMember(NameSegment, f[MemberPath(NameSegment)])>> ELSE << >>)

Tar(members) == [kind |-> "tar", members |-> members]

\* The persist directory and what is in it.
PersistPaths == { p \in FsPaths : IsUnder(p, PersistPath) }

PersistContent(f) == [p \in PersistPaths |-> f[p]]

NoSnapshot == [kind |-> "none"]

NotATar == [kind |-> "bytes"]        \* an object tarfile.open cannot read

NoObject == [kind |-> "none"]

\* Objects that somebody else may have put under the key.
ForeignObjects ==
    { NotATar,
      Tar(<<DirMember(NameDir), FileMember(NameIndex, "v2")>>),
      Tar(<<DirMember(NameDir), FileMember(NameIndex, "v1"), FileMember(NameSibling, "v2")>>),
      Tar(<<FileMember(NameIndex, "v1"), FileMember(NamePrefixed, "v2")>>),
      Tar(<<FileMember(NameIndex, "v2"), FileMember(NameOutside, "v1")>>) }

\* The check of restore_from_s3 on one member:
\* str(member_path.resolve()).startswith(str(extract_dir.resolve()))
PassesPathCheck(name) ==
    StartsWith(PathStr(MemberPath(name)), PathStr(Resolve(ExtractDir)))

\* tarfile's extraction of one member
ExtractMember(f, m) ==
    IF m.type = "dir"
    THEN MakeDir(f, MemberPath(m.name))
    ELSE WriteFile(f, MemberPath(m.name), m.content)

\* TarFile.extractall(path=extract_dir).  Under the "fully_trusted" filter
\* (the default before Python 3.14) every member is extracted where its name
\* points; under the "data" filter (the default from Python 3.14) a member
\* that would land outside extract_dir stops the extraction with an error,
\* the members before it staying extracted.
RECURSIVE ExtractAll(_, _, _, _)
ExtractAll(f, members, filter, written) ==
    IF members = << >>
    THEN [fs |-> f, written |-> written, error |-> "none"]
    ELSE LET m == Head(members)
         IN  IF filter = "data" /\ ~IsUnder(MemberPath(m.name), Resolve(ExtractDir))
             THEN [fs |-> f, written |-> written, error |-> "OutsideDestinationError"]
             ELSE ExtractAll(ExtractMember(f, m), Tail(members), filter,
                             written \cup {MemberPath(m.name)})

TarFilters == {"fully_trusted", "data"}

Omitted == "omitted"                 \* the caller does not pass overwrite

OverwriteArgs == {"True", "False", Omitted}

\* overwrite: bool = True
EffectiveOverwrite(arg) == IF arg = Omitted THEN TRUE ELSE arg = "True"

Failed(error, f, downloads) ==
    [outcome |-> error, fs |-> f, written |-> {}, downloads |-> downloads]

\* A variant that checks for an existing directory only after the download.
restore_from_s3_checks_late(f, object, download, arg, filter) ==
    LET overwrite == EffectiveOverwrite(arg)
    IN  IF download = "invalid bucket" THEN Failed("ValueError", f, 0)
        ELSE IF download = "transport error" THEN Failed("S3ClientError", f, 1)
        ELSE IF object.kind = "none" THEN Failed("ClientError", f, 1)
        ELSE IF Exists(f, PersistPath) /\ ~overwrite
             THEN Failed("FileExistsError", f, 1)
        ELSE LET cleared == IF Exists(f, PersistPath) /\ overwrite
                            THEN RmTree(f, PersistPath) ELSE f
             IN  IF object.kind # "tar" THEN Failed("ReadError", cleared, 1)
                 ELSE IF \E k \in 1..Len(object.members) :
                             ~PassesPathCheck(object.members[k].name)
                      THEN Failed("ValueError", cleared, 1)
                 ELSE LET ex == ExtractAll(cleared, object.members, filter, {})
                      IN  [ outcome |-> IF ex.error = "none" THEN "success" ELSE ex.error,
                            fs |-> ex.fs, written |-> ex.written, downloads |-> 1 ]

\* restore_from_s3(bucket, key, overwrite): what the call returns or raises,
\* the file system it leaves, the paths it extracted to and the number of
\* download requests it sent.
restore_from_s3(f, object, download, arg, filter) ==
    LET overwrite == EffectiveOverwrite(arg)
    IN  IF Exists(f, PersistPath) /\ ~overwrite
        THEN Failed("FileExistsError", f, 0)
        \* client.download_file: bucket name validation, then the request
        ELSE IF download = "invalid bucket" THEN Failed("ValueError", f, 0)
        ELSE IF download = "transport error" THEN Failed("S3ClientError", f, 1)
        ELSE IF object.kind = "none" THEN Failed("ClientError", f, 1)
        ELSE LET cleared == IF Exists(f, PersistPath) /\ overwrite
                            THEN RmTree(f, PersistPath) ELSE f
             IN  IF object.kind # "tar" THEN Failed("ReadError", cleared, 1)
                 ELSE IF \E k \in 1..Len(object.members) :
                             ~PassesPathCheck(object.members[k].name)
                      THEN Failed("ValueError", cleared, 1)
                 ELSE LET ex == ExtractAll(cleared, object.members, filter, {})
                      IN  [ outcome |-> IF ex.error = "none" THEN "success" ELSE ex.error,
                            fs |-> ex.fs, written |-> ex.written, downloads |-> 1 ]

\* What the bucket and the network do with the download request of a restore:
\* the bucket name is rejected before any request, the request fails in
\* transit, or the store answers (with the object, or that there is none).
DownloadOutcomes == {"invalid bucket", "transport error", "answered"}

RestoreFromS3(download, arg, filter) ==
    LET r == restore_from_s3(fs, s3, download, arg, filter)
    IN  /\ fs' = r.fs
        /\ restore' = [ kind |-> "call",
                        overwrite |-> arg,
                        existed |-> Exists(fs, PersistPath),
                        unchanged |-> r.fs = fs,
                        persist_changed |-> \E p \in FsPaths :
                                               IsUnder(p, PersistPath) /\ r.fs[p] # fs[p],
                        unsafe |-> /\ download = "answered"
                                   /\ s3.kind = "tar"
                                   /\ \E k \in 1..Len(s3.members) :
                                          ~IsUnder(MemberPath(s3.members[k].name),
                                                   PersistPath),
                        backup |-> snapshot.kind = "backup",
                        same_as_backup |-> /\ snapshot.kind = "backup"
                                           /\ PersistContent(r.fs) = snapshot.content,
                        outcome |-> r.outcome,
                        written |-> r.written,
                        downloads |-> r.downloads ]
        /\ UNCHANGED <<store, hist, settings, report, sess, s3, snapshot, objects, local, s3call, tmpfiles, loadcall, http, gate, got, toolcall, workers>>

\* create_vector_store / add_documents: Chroma persists the index.
AddDocuments(name, version) ==
    /\ fs' = WriteFile(fs, MemberPath(name), version)
    /\ UNCHANGED <<store, hist, settings, report, sess, s3, restore, snapshot, objects, local, s3call, tmpfiles, loadcall, http, gate, got, toolcall, workers>>

\* clear()
Clear ==
    /\ fs' = IF Exists(fs, PersistPath) THEN RmTree(fs, PersistPath) ELSE fs
    /\ UNCHANGED <<store, hist, settings, report, sess, s3, restore, snapshot, objects, local, s3call, tmpfiles, loadcall, http, gate, got, toolcall, workers>>

\* backup_to_s3(bucket, key) with a valid bucket and a working upload
BackupToS3 ==
    /\ Exists(fs, PersistPath)
    /\ s3' = Tar(ArchiveOf(fs))
    /\ snapshot' = [kind |-> "backup", content |-> PersistContent(fs)]
    /\ UNCHANGED <<store, hist, settings, report, sess, fs, restore, objects, local, s3call, tmpfiles, loadcall, http, gate, got, toolcall, workers>>

\* Another writer of the bucket puts or deletes the object under the key.
ForeignPut(object) ==
    /\ s3' = object
    /\ snapshot' = NoSnapshot
    /\ UNCHANGED <<store, hist, settings, report, sess, fs, restore, objects, local, s3call, tmpfiles, loadcall, http, gate, got, toolcall, workers>>

InitRestore ==
    /\ fs = [p \in FsPaths |-> Absent]
    /\ s3 = NoObject
    /\ restore = NoCall
    /\ snapshot = NoSnapshot

NextRestore ==
    \/ \E v \in FileVersions : AddDocuments(NameIndex, v)
    \/ AddDocuments(NameSegment, "v1")
    \/ Clear
    \/ BackupToS3
    \/ \E o \in ForeignObjects \cup {NoObject} : ForeignPut(o)
    \/ \E d \in DownloadOutcomes, a \in OverwriteArgs, f \in TarFilters :
           RestoreFromS3(d, a, f)

(***************************************************************************)
(* app/storage/s3_client.py                                                *)
(***************************************************************************)
\* BUCKET_NAME_PATTERN = re.compile(r'^[a-z0-9][a-z0-9\-]{1,61}[a-z0-9]$')
BUCKET_NAME_PATTERN ==
    << Cls(SeqToSet(LowerLetters) \cup Digits, 1, 1),
       Cls(SeqToSet(LowerLetters) \cup Digits \cup {"-"}, 1, 61),
       Cls(SeqToSet(LowerLetters) \cup Digits, 1, 1) >>

\* $ holds at position i: at the end of the text or before a final newline
AtEnd(text, i) ==
    \/ i = Len(text) + 1
    \/ i = Len(text) /\ text[i] = "\n"

\* pattern.match(text) for a pattern that ends with $
MatchToEnd(re, text) ==
    LET ends == MatchEnds(re, 1, text, 1)
    IN  \E k \in 1..Len(ends) : AtEnd(text, ends[k])

ValidBucket == <<"m", "y", "-", "b", "u", "c", "k", "e", "t">>
SpacedBucket == <<"B", "a", "d", " ", "N", "a", "m", "e", "!">>
ShortBucket == <<"a", "b">>

BucketNames == {ValidBucket, SpacedBucket, ShortBucket}

\* BUCKET_NAME_PATTERN.match of each bucket name of the model, computed once.
BucketNameMatches == [b \in BucketNames |-> MatchToEnd(BUCKET_NAME_PATTERN, b)]

\* _validate_bucket_name(bucket) returns (TRUE) or raises ValueError (FALSE)
_validate_bucket_name(bucket) == BucketNameMatches[bucket]

Keys == {"k1", "k2"}

LocalPaths == {"f1", "f2"}

\* The content of each local file, when it is there.
ContentOf == [p \in LocalPaths |-> IF p = "f1" THEN "a" ELSE "b"]

\* No call of the client is in progress; deleted is the key the call before
\* deleted, if it was a delete_file that succeeded.
NoS3Call(deleted) == [op |-> "none", deleted |-> deleted]

\* What the store and the network do with one request of the boto3 client:
\* the store answers it, the store refuses it (a ClientError whose code is
\* not 404 / NoSuchKey, e.g. AccessDenied), or no answer arrives (botocore's
\* EndpointConnectionError, a BotoCoreError and not a ClientError).
BackendOutcomes == {"answered", "refused", "unreachable"}

\* The code of the ClientError boto3 raises for a missing object.
NotFoundCodes == {"404", "NoSuchKey"}

Returned(o, requests) ==
    [outcome |-> "success", code |-> "none", objects |-> o, requests |-> requests]

Raised(error, code, o, requests) ==
    [outcome |-> error, code |-> code, objects |-> o, requests |-> requests]

\* A variant that looks for the local file before it validates the bucket.
upload_file_checks_file_first(o, files, file_path, bucket, key, backend) ==
    IF files[file_path] = Absent THEN Raised("FileNotFoundError", "none", o, 0)
    ELSE IF ~_validate_bucket_name(bucket) THEN Raised("ValueError", "none", o, 0)
    ELSE IF backend = "refused" THEN Raised("S3ClientError", "none", o, 1)
    ELSE IF backend = "unreachable" THEN Raised("EndpointConnectionError", "none", o, 1)
    ELSE Returned([o EXCEPT ![key] = files[file_path]], 2)

\* upload_file(file_path, bucket, key): what it returns or raises, the bucket
\* it leaves and the number of requests it sent (upload_file, head_object).
upload_file(o, files, file_path, bucket, key, backend) ==
    IF ~_validate_bucket_name(bucket) THEN Raised("ValueError", "none", o, 0)
    ELSE IF files[file_path] = Absent THEN Raised("FileNotFoundError", "none", o, 0)
    ELSE IF backend = "refused" THEN Raised("S3ClientError", "none", o, 1)
    ELSE IF backend = "unreachable" THEN Raised("EndpointConnectionError", "none", o, 1)
    ELSE Returned([o EXCEPT ![key] = files[file_path]], 2)

\* download_file(bucket, key, file_path): what it returns or raises and the
\* local files it leaves.  code is the code boto3 gives a missing object.
download_file(o, files, bucket, key, file_path, backend, code) ==
    IF ~_validate_bucket_name(bucket)
    THEN [outcome |-> "ValueError", code |-> "none", local |-> files, cause |-> "bucket name"]
    ELSE IF backend = "unreachable"
    THEN [outcome |-> "EndpointConnectionError", code |-> "none", local |-> files,
          cause |-> "transport"]
    ELSE IF backend = "refused"
    THEN [outcome |-> "S3ClientError", code |-> "none", local |-> files, cause |-> "backend"]
    ELSE IF o[key] = Absent
    THEN [outcome |-> "ClientError", code |-> code, local |-> files, cause |-> "missing"]
    ELSE [outcome |-> "success", code |-> "none",
          local |-> [files EXCEPT ![file_path] = o[key]], cause |-> "none"]

\* A variant for a store that refuses to delete an object it does not have.
delete_file_strict(o, bucket, key, backend) ==
    IF ~_validate_bucket_name(bucket) THEN Raised("ValueError", "none", o, 0)
    ELSE IF backend = "refused" \/ o[key] = Absent THEN Raised("S3ClientError", "none", o, 1)
    ELSE IF backend = "unreachable" THEN Raised("EndpointConnectionError", "none", o, 1)
    ELSE Returned([o EXCEPT ![key] = Absent], 1)

\* delete_file(bucket, key); delete_object answers a missing key like a
\* present one.
delete_file(o, bucket, key, backend) ==
    IF ~_validate_bucket_name(bucket) THEN Raised("ValueError", "none", o, 0)
    ELSE IF backend = "refused" THEN Raised("S3ClientError", "none", o, 1)
    ELSE IF backend = "unreachable" THEN Raised("EndpointConnectionError", "none", o, 1)
    ELSE Returned([o EXCEPT ![key] = Absent], 1)

MaxBatch == 2                       \* the longest list of files given to batch_upload

\* Lists of at most n elements of S.
SeqsUpTo(S, n) == UNION { [1..k -> S] : k \in 0..n }

\* The files argument of batch_upload: dicts with 'file_path' and 'key'.
FileInfos == [file_path : LocalPaths, key : Keys]

\* A variant of the loop that gives up at the first file that fails.
RECURSIVE BatchLoopStopsAtFailure(_, _, _, _, _, _, _, _)
BatchLoopStopsAtFailure(o, files, bucket, items, backends, uploaded, failed, attempts) ==
    IF items = << >> \/ failed # << >>
    THEN [objects |-> o, uploaded |-> uploaded, failed |-> failed, attempts |-> attempts]
    ELSE LET file_info == Head(items)
             result == upload_file(o, files, file_info.file_path, bucket, file_info.key,
                                   Head(backends))
         IN  IF result.outcome = "success"
             THEN BatchLoopStopsAtFailure(result.objects, files, bucket, Tail(items),
                      Tail(backends),
                      Append(uploaded, [file_path |-> file_info.file_path,
                                        key |-> file_info.key,
                                        etag |-> files[file_info.file_path]]),
                      failed, Append(attempts, file_info))
             ELSE BatchLoopStopsAtFailure(result.objects, files, bucket, Tail(items),
                      Tail(backends), uploaded,
                      Append(failed, [file_path |-> file_info.file_path,
                                      key |-> file_info.key,
                                      error |-> result.outcome]),
                      Append(attempts, file_info))

\* for file_info in files: try upload_file ... except Exception.  attempts
\* lists the files upload_file was called for, in the order of the calls.
RECURSIVE BatchLoop(_, _, _, _, _, _, _, _)
BatchLoop(o, files, bucket, items, backends, uploaded, failed, attempts) ==
    IF items = << >>
    THEN [objects |-> o, uploaded |-> uploaded, failed |-> failed, attempts |-> attempts]
    ELSE LET file_info == Head(items)
             result == upload_file(o, files, file_info.file_path, bucket, file_info.key,
                                   Head(backends))
         IN  IF result.outcome = "success"
             THEN BatchLoop(result.objects, files, bucket, Tail(items), Tail(backends),
                      Append(uploaded, [file_path |-> file_info.file_path,
                                        key |-> file_info.key,
                                        etag |-> files[file_info.file_path]]),
                      failed, Append(attempts, file_info))
             ELSE BatchLoop(result.objects, files, bucket, Tail(items), Tail(backends),
                      uploaded,
                      Append(failed, [file_path |-> file_info.file_path,
                                      key |-> file_info.key,
                                      error |-> result.outcome]),
                      Append(attempts, file_info))

\* batch_upload(bucket, files)
batch_upload(o, files, bucket, items, backends) ==
    IF ~_validate_bucket_name(bucket)
    THEN [outcome |-> "ValueError", objects |-> o]
    ELSE LET r == BatchLoop(o, files, bucket, items, backends, << >>, << >>, << >>)
         IN  [ outcome |-> "returned",
               objects |-> r.objects,
               attempts |-> r.attempts,
               success |-> Len(r.failed) = 0,
               uploaded_count |-> Len(r.uploaded),
               failed_count |-> Len(r.failed),
               uploaded |-> r.uploaded,
               failed |-> r.failed ]

UploadFile(file_path, bucket, key, backend) ==
    LET r == upload_file(objects, local, file_path, bucket, key, backend)
    IN  /\ s3call.op = "none"
        /\ objects' = r.objects
        /\ s3call' = [ op |-> "upload_file", bucket |-> bucket, key |-> key,
                       file_path |-> file_path,
                       file_missing |-> local[file_path] = Absent,
                       outcome |-> r.outcome, requests |-> r.requests,
                       store_unchanged |-> r.objects = objects ]
        /\ UNCHANGED <<store, hist, settings, report, sess, fs, s3, restore, snapshot, local, tmpfiles, loadcall, http, gate, got, toolcall, workers>>

DownloadFile(bucket, key, file_path, backend, code) ==
    LET r == download_file(objects, local, bucket, key, file_path, backend, code)
    IN  /\ s3call.op = "none"
        /\ local' = r.local
        /\ s3call' = [ op |-> "download_file", bucket |-> bucket, key |-> key,
                       file_path |-> file_path, cause |-> r.cause,
                       outcome |-> r.outcome, code |-> r.code ]
        /\ UNCHANGED <<store, hist, settings, report, sess, fs, s3, restore, snapshot, objects, tmpfiles, loadcall, http, gate, got, toolcall, workers>>

DeleteFile(bucket, key, backend) ==
    LET r == delete_file(objects, bucket, key, backend)
    IN  /\ s3call.op = "none"
        /\ objects' = r.objects
        /\ s3call' = [ op |-> "delete_file", bucket |-> bucket, key |-> key,
                       backend |-> backend,
                       was_absent |-> objects[key] = Absent,
                       absent_after |-> r.objects[key] = Absent,
                       repeated |-> s3call.deleted = key,
                       outcome |-> r.outcome,
                       store_unchanged |-> r.objects = objects ]
        /\ UNCHANGED <<store, hist, settings, report, sess, fs, s3, restore, snapshot, local, tmpfiles, loadcall, http, gate, got, toolcall, workers>>

BatchUpload(bucket, items, backends) ==
    LET r == batch_upload(objects, local, bucket, items, backends)
    IN  /\ s3call.op = "none"
        /\ objects' = r.objects
        /\ s3call' = [ op |-> "batch_upload", bucket |-> bucket, files |-> items,
                       result |-> [r EXCEPT !.objects = "n/a"] ]
        /\ UNCHANGED <<store, hist, settings, report, sess, fs, s3, restore, snapshot, local, tmpfiles, loadcall, http, gate, got, toolcall, workers>>

\* The caller takes the result of the call.
ReturnS3Call ==
    /\ s3call.op # "none"
    /\ s3call' = NoS3Call(IF s3call.op = "delete_file" /\ s3call.outcome = "success"
                          THEN s3call.key ELSE "none")
    /\ UNCHANGED <<store, hist, settings, report, sess, fs, s3, restore, snapshot, objects, local, tmpfiles, loadcall, http, gate, got, toolcall, workers>>

\* Between two calls somebody writes or removes a local file.
WriteLocal(file_path, content) ==
    /\ s3call.op = "none"
    /\ local' = [local EXCEPT ![file_path] = content]
    /\ UNCHANGED <<store, hist, settings, report, sess, fs, s3, restore, snapshot, objects, s3call, tmpfiles, loadcall, http, gate, got, toolcall, workers>>

InitS3Client ==
    /\ objects = [k \in Keys |-> Absent]
    /\ local = [p \in LocalPaths |-> Absent]
    /\ s3call = NoS3Call("none")

NextS3Client ==
    \/ \E p \in LocalPaths, b \in BucketNames, k \in Keys, e \in BackendOutcomes :
           UploadFile(p, b, k, e)
    \/ \E b \in BucketNames, k \in Keys, p \in LocalPaths, e \in BackendOutcomes,
          c \in NotFoundCodes :
           DownloadFile(b, k, p, e, c)
    \/ \E b \in BucketNames, k \in Keys, e \in BackendOutcomes : DeleteFile(b, k, e)
    \/ \E b \in {ValidBucket, SpacedBucket}, items \in SeqsUpTo(FileInfos, MaxBatch) :
           \E backends \in [1..Len(items) -> BackendOutcomes] :
               BatchUpload(b, items, backends)
    \/ ReturnS3Call
    \/ \E p \in LocalPaths : \E c \in {ContentOf[p], Absent} : WriteLocal(p, c)

(***************************************************************************)
(* app/ingestion/s3_document_loader.py                                     *)
(***************************************************************************)
S3Scheme == <<"s", "3", ":", "/", "/">>

\* S3URIParser.is_s3_uri
is_s3_uri(uri) == StartsWith(uri, S3Scheme)

\* The first position from i on that holds c, 0 if there is none.
RECURSIVE IndexFrom(_, _, _)
IndexFrom(text, c, i) ==
    IF i > Len(text) THEN 0
    ELSE IF text[i] = c THEN i
    ELSE IndexFrom(text, c, i + 1)

\* The last position that holds c, 0 if there is none.
RECURSIVE LastIndex(_, _, _)
LastIndex(text, c, i) ==
    IF i = 0 THEN 0
    ELSE IF text[i] = c THEN i
    ELSE LastIndex(text, c, i - 1)

\* S3URIParser.parse: S3_URI_PATTERN = r'^s3://([^/]+)/(.+)$'.  The bucket
\* is what stands before the first slash after the scheme, the key all that
\* follows it; both must have at least one character.
S3URIParser_parse(s3_uri) ==
    LET slash == IndexFrom(s3_uri, "/", Len(S3Scheme) + 1)
    IN  IF StartsWith(s3_uri, S3Scheme) /\ slash > Len(S3Scheme) + 1 /\ slash < Len(s3_uri)
        THEN [ ok |-> TRUE,
               bucket |-> SubSeq(s3_uri, Len(S3Scheme) + 1, slash - 1),
               key |-> SubSeq(s3_uri, slash + 1, Len(s3_uri)) ]
        ELSE [ok |-> FALSE]

\* Path(key).suffix.lower()
Suffix(key) ==
    LET name == SubSeq(key, LastIndex(key, "/", Len(key)) + 1, Len(key))
        dot == LastIndex(name, ".", Len(name))
    IN  IF dot > 1 /\ dot < Len(name)
        THEN ToLower(SubSeq(name, dot, Len(name)))
        ELSE << >>

None == "None"

\* S3FileLoader.__init__: the loader, or the ValueError it raises
S3FileLoader(s3_uri, file_type) ==
    LET parsed == S3URIParser_parse(s3_uri)
    IN  IF ~parsed.ok THEN [ok |-> FALSE]
        ELSE IF file_type # None
        THEN [ok |-> TRUE, s3_uri |-> s3_uri, bucket |-> parsed.bucket,
              key |-> parsed.key, file_type |-> file_type]
        ELSE LET ext == Suffix(parsed.key)
             IN  IF ext = <<".", "p", "d", "f">>
                 THEN [ok |-> TRUE, s3_uri |-> s3_uri, bucket |-> parsed.bucket,
                       key |-> parsed.key, file_type |-> "pdf"]
                 ELSE IF ext \in {<<".", "t", "x", "t">>, <<".", "t", "e", "x", "t">>}
                 THEN [ok |-> TRUE, s3_uri |-> s3_uri, bucket |-> parsed.bucket,
                       key |-> parsed.key, file_type |-> "txt"]
                 ELSE [ok |-> FALSE]

\* What happens to one file on its way into documents: the store has no such
\* object, refuses the request or cannot be reached, or the download
\* succeeds and the file parses into one or two documents or not at all.
FileEnvs == {"one page", "two pages", "undecodable", "missing", "refused", "unreachable"}

Document(s3_uri, page) == [source |-> s3_uri, page |-> page]

\* _load_from_local_file(tmp_path)
_load_from_local_file(loader, env) ==
    IF loader.file_type \notin {"pdf", "txt", "text"}
    THEN [error |-> "ValueError", documents |-> << >>]
    ELSE IF env = "undecodable"
    THEN [error |-> "RuntimeError", documents |-> << >>]
    ELSE [error |-> "none",
          documents |-> IF env = "one page"
                        THEN <<Document(loader.s3_uri, 1)>>
                        ELSE <<Document(loader.s3_uri, 1), Document(loader.s3_uri, 2)>>]

\* self.s3_client.download_file(bucket, key, tmp_path) as the loader sees it
LoaderDownload(loader, env) ==
    IF ~_validate_bucket_name(loader.bucket) THEN "ValueError"
    ELSE IF env = "unreachable" THEN "EndpointConnectionError"
    ELSE IF env = "refused" THEN "S3ClientError"
    ELSE IF env = "missing" THEN "ClientError"
    ELSE "success"

\* A variant of load that removes the temporary file only when the documents
\* were loaded.
S3FileLoader_load_cleans_on_success(loader, env, tmp) ==
    LET created == tmp + 1
        download == LoaderDownload(loader, env)
        parsed == _load_from_local_file(loader, env)
    IN  IF download = "ClientError"
        THEN [error |-> "FileNotFoundError", documents |-> << >>, tmp |-> created]
        ELSE IF download # "success"
        THEN [error |-> download, documents |-> << >>, tmp |-> created]
        ELSE IF parsed.error # "none"
        THEN [error |-> parsed.error, documents |-> << >>, tmp |-> created]
        ELSE [error |-> "none", documents |-> parsed.documents, tmp |-> created - 1]

\* S3FileLoader.load: the documents it returns or the error it raises, and
\* the number of files in the temporary directory afterwards.
S3FileLoader_load(loader, env, tmp) ==
    LET created == tmp + 1                     \* NamedTemporaryFile(delete=False)
        download == LoaderDownload(loader, env)
        parsed == _load_from_local_file(loader, env)
        \* finally: if os.path.exists(tmp_path): os.unlink(tmp_path); nothing
        \* has removed the file before
        cleaned == created - 1
    IN  IF download = "ClientError"
        THEN [error |-> "FileNotFoundError", documents |-> << >>, tmp |-> cleaned]
        ELSE IF download # "success"
        THEN [error |-> download, documents |-> << >>, tmp |-> cleaned]
        ELSE IF parsed.error # "none"
        THEN [error |-> parsed.error, documents |-> << >>, tmp |-> cleaned]
        ELSE [error |-> "none", documents |-> parsed.documents, tmp |-> cleaned]

\* S3FileLoader(s3_uri, file_type, s3_client).load()
LoadFile(s3_uri, file_type, env, tmp) ==
    LET loader == S3FileLoader(s3_uri, file_type)
    IN  IF ~loader.ok
        THEN [error |-> "ValueError", documents |-> << >>, tmp |-> tmp]
        ELSE S3FileLoader_load(loader, env, tmp)

\* The prefix S3DirectoryLoader is made for and the keys the store may list
\* under it.
DirBucket == ValidBucket

PdfKey == <<"d", "/", "a", ".", "p", "d", "f">>
TxtKey == <<"d", "/", "b", ".", "t", "x", "t">>
BinKey == <<"d", "/", "c", ".", "b", "i", "n">>

\* list_files gives the keys in the store's order, each once.
Listings ==
    { <<>>, <<PdfKey>>, <<TxtKey>>, <<BinKey>>, <<PdfKey, TxtKey>>, <<PdfKey, BinKey>>,
      <<TxtKey, BinKey>>, <<PdfKey, TxtKey, BinKey>> }

\* f['key'].endswith(ext)
EndsWith(text, suffix) ==
    Len(suffix) <= Len(text)
    /\ SubSeq(text, Len(text) - Len(suffix) + 1, Len(text)) = suffix

\* The files S3DirectoryLoader.load selects from the listing: the file type
\* filter, then the max_files limit (0 and None both switch it off).
SelectFiles(files, file_type, max_files) ==
    LET typed == IF file_type = None THEN files
                 ELSE SelectSeq(files, LAMBDA key : EndsWith(key, <<".", "p", "d", "f">>))
    IN  IF max_files # 0 /\ max_files < Len(typed)
        THEN SubSeq(typed, 1, max_files)
        ELSE typed

\* f"s3://{self.bucket}/{file_info['key']}"
UriOf(bucket, key) == S3Scheme \o bucket \o <<"/">> \o key

\* A variant of the loop that stops at the first file that fails.
RECURSIVE LoadEachStopsAtFailure(_, _, _, _, _, _)
LoadEachStopsAtFailure(keys, file_type, envs, tmp, all_documents, attempts) ==
    IF keys = << >>
    THEN [documents |-> all_documents, attempts |-> attempts, tmp |-> tmp]
    ELSE LET s3_uri == UriOf(DirBucket, Head(keys))
             r == LoadFile(s3_uri, file_type, Head(envs), tmp)
         IN  IF r.error # "none"
             THEN [documents |-> all_documents, attempts |-> Append(attempts, s3_uri),
                   tmp |-> r.tmp]
             ELSE LoadEachStopsAtFailure(Tail(keys), file_type, Tail(envs), r.tmp,
                      all_documents \o r.documents, Append(attempts, s3_uri))

\* for file_info in files: try S3FileLoader(...).load() except Exception.
\* attempts lists the URIs a loader was made for, in order.
RECURSIVE LoadEach(_, _, _, _, _, _)
LoadEach(keys, file_type, envs, tmp, all_documents, attempts) ==
    IF keys = << >>
    THEN [documents |-> all_documents, attempts |-> attempts, tmp |-> tmp]
    ELSE LET s3_uri == UriOf(DirBucket, Head(keys))
             r == LoadFile(s3_uri, file_type, Head(envs), tmp)
         IN  LoadEach(Tail(keys), file_type, Tail(envs), r.tmp,
                      IF r.error = "none" THEN all_documents \o r.documents
                                          ELSE all_documents,
                      Append(attempts, s3_uri))

\* S3DirectoryLoader.load; listing is what the store has under the prefix,
\* backend what happens to the list_files request.
S3DirectoryLoader_load(backend, listing, file_type, max_files, envs, tmp) ==
    IF backend = "refused"
    THEN [error |-> "S3ClientError", selected |-> << >>, documents |-> << >>,
          attempts |-> << >>, tmp |-> tmp]
    ELSE IF backend = "unreachable"
    THEN [error |-> "EndpointConnectionError", selected |-> << >>, documents |-> << >>,
          attempts |-> << >>, tmp |-> tmp]
    ELSE LET files == SelectFiles(listing, file_type, max_files)
             r == LoadEach(files, file_type, envs, tmp, << >>, << >>)
         IN  [error |-> "none", selected |-> files, documents |-> r.documents,
              attempts |-> r.attempts, tmp |-> r.tmp]

(***************************************************************************)
(* app/ingestion/document_processor.py                                     *)
(***************************************************************************)
\* process_s3_file(s3_uri, file_type, s3_client)
process_s3_file(s3_uri, file_type, env, tmp) ==
    IF ~is_s3_uri(s3_uri)
    THEN [error |-> "ValueError", documents |-> << >>, tmp |-> tmp]
    ELSE LoadFile(s3_uri, file_type, env, tmp)

\* The loop of batch_process_s3_files.
RECURSIVE BatchProcessLoop(_, _, _, _, _)
BatchProcessLoop(s3_uris, file_type, envs, tmp, acc) ==
    IF s3_uris = << >>
    THEN [acc EXCEPT !.tmp = tmp]
    ELSE LET s3_uri == Head(s3_uris)
             r == process_s3_file(s3_uri, file_type, Head(envs), tmp)
         IN  BatchProcessLoop(Tail(s3_uris), file_type, Tail(envs), r.tmp,
                 IF r.error = "none"
                 THEN [acc EXCEPT !.documents = @ \o r.documents,
                                  !.success_count = @ + 1,
                                  !.attempts = Append(@, s3_uri)]
                 ELSE [acc EXCEPT !.failed_count = @ + 1,
                                  !.errors = Append(@, [s3_uri |-> s3_uri, error |-> r.error]),
                                  !.attempts = Append(@, s3_uri)])

\* batch_process_s3_files(s3_uris, file_type, s3_client)
batch_process_s3_files(s3_uris, file_type, envs, tmp) ==
    BatchProcessLoop(s3_uris, file_type, envs, tmp,
        [ success_count |-> 0, failed_count |-> 0, total_count |-> Len(s3_uris),
          documents |-> << >>, errors |-> << >>, attempts |-> << >>, tmp |-> tmp ])

\* The URIs given to the loaders by their callers.
PdfUri == UriOf(ValidBucket, PdfKey)
TxtUri == UriOf(ValidBucket, TxtKey)
BinUri == UriOf(ValidBucket, BinKey)
BadBucketUri == UriOf(SpacedBucket, PdfKey)
NoKeyUri == <<"s", "3", ":", "/", "/", "m", "y", "-", "b", "u", "c", "k", "e", "t">>
LocalUri == <<"d", "/", "a", ".", "p", "d", "f">>

Uris == {PdfUri, TxtUri, BinUri, BadBucketUri, NoKeyUri, LocalUri}

MaxUris == 2                        \* the longest list given to batch_process_s3_files

NoLoad == [op |-> "none"]

FileLoad(s3_uri, file_type, env) ==
    LET r == LoadFile(s3_uri, file_type, env, tmpfiles)
    IN  /\ loadcall.op = "none"
        /\ tmpfiles' = r.tmp
        /\ loadcall' = [ op |-> "S3FileLoader.load", s3_uri |-> s3_uri,
                         file_type |-> file_type, env |-> env,
                         error |-> r.error, documents |-> r.documents ]
        /\ UNCHANGED <<store, hist, settings, report, sess, fs, s3, restore, snapshot, objects, local, s3call, http, gate, got, toolcall, workers>>

DirectoryLoad(backend, listing, file_type, max_files, envs) ==
    LET r == S3DirectoryLoader_load(backend, listing, file_type, max_files, envs, tmpfiles)
    IN  /\ loadcall.op = "none"
        /\ tmpfiles' = r.tmp
        /\ loadcall' = [ op |-> "S3DirectoryLoader.load", backend |-> backend,
                         file_type |-> file_type, envs |-> envs,
                         error |-> r.error, selected |-> r.selected,
                         documents |-> r.documents, attempts |-> r.attempts ]
        /\ UNCHANGED <<store, hist, settings, report, sess, fs, s3, restore, snapshot, objects, local, s3call, http, gate, got, toolcall, workers>>

BatchProcess(s3_uris, file_type, envs) ==
    LET r == batch_process_s3_files(s3_uris, file_type, envs, tmpfiles)
    IN  /\ loadcall.op = "none"
        /\ tmpfiles' = r.tmp
        /\ loadcall' = [ op |-> "batch_process_s3_files", s3_uris |-> s3_uris,
                         file_type |-> file_type, envs |-> envs,
                         result |-> [r EXCEPT !.tmp = 0] ]
        /\ UNCHANGED <<store, hist, settings, report, sess, fs, s3, restore, snapshot, objects, local, s3call, http, gate, got, toolcall, workers>>

\* The caller takes the result of the call.
ReturnLoad ==
    /\ loadcall.op # "none"
    /\ loadcall' = NoLoad
    /\ UNCHANGED <<store, hist, settings, report, sess, fs, s3, restore, snapshot, objects, local, s3call, tmpfiles, http, gate, got, toolcall, workers>>

InitLoader ==
    /\ tmpfiles = 0
    /\ loadcall = NoLoad

NextLoader ==
    \/ \E u \in Uris, t \in {None, "pdf", "txt"}, e \in FileEnvs : FileLoad(u, t, e)
    \/ \E b \in {"refused", "unreachable"} : DirectoryLoad(b, << >>, None, 0, << >>)
    \/ \E l \in Listings, t \in {None, "pdf"}, m \in 0..2 :
           \E envs \in [1..Len(l) -> FileEnvs] : DirectoryLoad("answered", l, t, m, envs)
    \/ \E uris \in SeqsUpTo(Uris, MaxUris), t \in {"pdf", "txt"} :
           \E envs \in [1..Len(uris) -> FileEnvs] : BatchProcess(uris, t, envs)
    \/ ReturnLoad

(***************************************************************************)
(* app/api/routes.py: POST /generate-lesson                                *)
(***************************************************************************)
\* What generator.generate_lesson does: it raises, or it returns the lesson
\* the chain parsed from the LLM's answer.
GeneratorOutcomes == {Raises} \cup { [kind |-> "lesson", lesson |-> l] : l \in Lessons }

ServerError(detail) == [status |-> 500, detail |-> detail]

\* The body of generate_lesson from the safety validation on; rag_enabled
\* tells whether the vector store could be loaded.
generate_lesson(rag_enabled, generated, moderationOutcome, judgeOutcome, cfg) ==
    IF generated.kind = "raises" THEN ServerError("generation failed")
    ELSE LET lesson == generated.lesson
             safety_check == validate_content(content_to_validate(lesson),
                                              moderationOutcome, judgeOutcome, cfg)
             sanitize == ~safety_check.passed /\ safety_check.pii_detected
         IN  \* lesson["content"], lesson["scenario"]
             IF sanitize /\ {"content", "scenario"} \ DOMAIN lesson # {}
             THEN ServerError("KeyError")
             ELSE [ status |-> 200,
                    lesson |-> IF sanitize
                               THEN [k \in DOMAIN lesson |-> SanitizedContents[lesson[k]]]
                               ELSE lesson,
                    metadata |-> [rag_enabled |-> rag_enabled],
                    safety_check |-> safety_check ]

\* vector_store_manager.load_vector_store()
LoadOutcomes == {"loaded", "raises"}

\* vector_store_manager.as_retriever(vector_store)
BuildOutcomes == {"built", "raises"}

\* A variant that keeps a retriever when only as_retriever raised.
obtain_retriever_ignores_build(loadOutcome, buildOutcome) ==
    IF loadOutcome = "raises" THEN None ELSE "retriever"

\* The inner try block of generate_lesson: the retriever, or None when
\* loading the store or building the retriever raised.
obtain_retriever(loadOutcome, buildOutcome) ==
    IF loadOutcome = "raises" THEN None
    ELSE IF buildOutcome = "raises" THEN None
    ELSE "retriever"

\* The context create_lesson_chain gives the prompt.
lesson_context(retriever) ==
    IF retriever # None THEN "retrieved documents" ELSE "No context available"

GenerateLesson(loadOutcome, buildOutcome, generated, moderationOutcome, judgeOutcome) ==
    /\ http.kind = "none"
    /\ LET retriever == obtain_retriever(loadOutcome, buildOutcome)
       IN  http' = [ kind |-> "generate_lesson",
                     load |-> loadOutcome,
                     build |-> buildOutcome,
                     context |-> lesson_context(retriever),
                     generated |-> generated,
                     moderation |-> moderationOutcome,
                     judge |-> judgeOutcome,
                     response |-> generate_lesson(retriever # None, generated,
                                                  moderationOutcome, judgeOutcome,
                                                  settings) ]
    /\ UNCHANGED <<store, hist, settings, report, sess, fs, s3, restore, snapshot, objects, local, s3call, tmpfiles, loadcall, gate, got, toolcall, workers>>

\* The response has gone out to the client.
SendResponse ==
    /\ http.kind # "none"
    /\ http' = NoCall
    /\ UNCHANGED <<store, hist, settings, report, sess, fs, s3, restore, snapshot, objects, local, s3call, tmpfiles, loadcall, gate, got, toolcall, workers>>

InitLesson == http = NoCall

NextLesson ==
    \/ \E l \in LoadOutcomes, b \in BuildOutcomes, g \in GeneratorOutcomes,
          m \in ModerationOutcomes, j \in JudgeOutcomes :
           GenerateLesson(l, b, g, m, j)
    \/ SendResponse

(***************************************************************************)
(* The application and its API-key dependency (app/main.py,                *)
(* app/api/deps.py, app/api/routes.py, app/api/agent_routes.py).           *)
(***************************************************************************)

\* settings.ai_service_api_key: the default and the values an environment
\* may set; the empty string is "no secret configured".
ai_service_api_key == "dev_key"

ApiKeys == {"", ai_service_api_key, "prod_key"}

\* The X-API-Key header of a request; auto_error=False turns a missing header
\* into None.
ApiKeyHeaders == {None, "", ai_service_api_key, "prod_key", "wrong"}

\* deps.get_api_key: "allowed" or the HTTPException 403.
get_api_key(api_key_header, configured) ==
    IF configured = "" THEN "allowed"
    ELSE IF api_key_header = configured THEN "allowed"
    ELSE "403"

\* The paths the two routers declare.
RouterPaths ==
    {"/status", "/generate-lesson", "/ingest-documents", "/validate-safety",
     "/process-document"}

AgentRouterPaths ==
    {"/agent/chat", "/agent/start-lesson", "/agent/submit-answer",
     "/agent/learning-path/l1"}

\* app.include_router(router, prefix="/api/v1") is the only inclusion: the
\* routes the application serves, and the dependencies FastAPI runs before
\* one of their handlers (none is declared on the application, on the
\* inclusion, on APIRouter() or on a route).
IncludedPaths == RouterPaths

RouteDependencies == {}

RequestPaths == RouterPaths \cup AgentRouterPaths

NoRequest(configured) == [kind |-> "none", configured |-> configured]

\* What the application does with a request to /api/v1<path>: 404 for a path
\* no included router declares, the error of the first dependency that raises,
\* the handler otherwise.
Route(path, api_key_header, configured) ==
    IF path \notin IncludedPaths THEN [status |-> "404", handler |-> FALSE]
    ELSE IF \E dep \in RouteDependencies :
                dep = "get_api_key" /\ get_api_key(api_key_header, configured) = "403"
         THEN [status |-> "403", handler |-> FALSE]
         ELSE [status |-> "handler", handler |-> TRUE]

Request(path, api_key_header) ==
    /\ gate' = [kind |-> "request", configured |-> gate.configured,
                path |-> path, api_key_header |-> api_key_header,
                routed |-> Route(path, api_key_header, gate.configured)]
    /\ UNCHANGED <<store, hist, settings, report, sess, fs, s3, restore, snapshot, objects, local, s3call, tmpfiles, loadcall, http, got, toolcall, workers>>

InitGateway == gate = NoRequest(ai_service_api_key)

NextGateway == \E p \in RequestPaths, h \in ApiKeyHeaders : Request(p, h)

(***************************************************************************)
(* app/api/routes.py: POST /process-document                               *)
(***************************************************************************)
\* request.content_type and request.filename
ContentTypes == {<< >>, <<"a", "p", "p", "l", "i", "c", "a", "t", "i", "o", "n", "/", "P", "D", "F">>, <<"t", "e", "x", "t", "/", "p", "l", "a", "i", "n">>, <<"i", "m", "a", "g", "e", "/", "p", "n", "g">>}

Filenames == {<< >>, <<"a", ".", "P", "D", "F">>, <<"b", ".", "t", "x", "t">>, <<"c", ".", "b", "i", "n">>}

\* The file type process_document derives from the request.
DocumentFileType(content_type, filename) ==
    IF content_type # << >>
    THEN IF Contains(ToLower(content_type), <<"p", "d", "f">>) THEN "pdf"
         ELSE IF Contains(ToLower(content_type), <<"t", "e", "x", "t">>) THEN "txt"
         ELSE "pdf"
    ELSE IF filename # << >>
    THEN IF EndsWith(ToLower(filename), <<".", "p", "d", "f">>) THEN "pdf"
         ELSE IF EndsWith(ToLower(filename), <<".", "t", "x", "t">>) THEN "txt"
         ELSE "pdf"
    ELSE "pdf"

\* The chunks the splitter makes of one page: none of an empty page.
ChunksPerPage == {0, 1, 2}

\* create_vector_store(chunks) / add_documents(vector_store, chunks): the
\* chunks are embedded and stored, or the call raises.
StoreOutcomes == {"stored", "ValueError", "RuntimeError"}

DocumentFailure(prefix) ==
    [ status |-> 200, success |-> FALSE, chunks_created |-> 0,
      embeddings_created |-> 0, error |-> prefix ]

\* A variant that answers every failure with HTTP 500.
process_document_strict(s3_bucket, s3_key, content_type, filename, env, perPage, loadOutcome, storeOutcome, tmp) ==
    LET loaded == process_s3_file(UriOf(s3_bucket, s3_key),
                                  DocumentFileType(content_type, filename), env, tmp)
        raised == IF loaded.error # "none" THEN loaded.error
                  ELSE IF storeOutcome # "stored" THEN storeOutcome
                  ELSE "none"
    IN  [ raised |-> raised, tmp |-> loaded.tmp,
          response |-> IF raised # "none"
                       THEN [status |-> 500, detail |-> "Document processing failed"]
                       ELSE [ status |-> 200, success |-> TRUE,
                              chunks_created |-> Len(loaded.documents) * perPage,
                              embeddings_created |-> Len(loaded.documents) * perPage,
                              error |-> None ] ]

\* process_document(request): what was raised inside the try block, the
\* response, and the number of temporary files afterwards.
process_document(s3_bucket, s3_key, content_type, filename, env, perPage, loadOutcome, storeOutcome, tmp) ==
    LET s3_uri == UriOf(s3_bucket, s3_key)
        file_type == DocumentFileType(content_type, filename)
        loaded == process_s3_file(s3_uri, file_type, env, tmp)
        chunks == Len(loaded.documents) * perPage
        \* create_vector_store when the store could not be loaded, else
        \* add_documents
        embeddings_created == IF loadOutcome = "raises" THEN chunks ELSE chunks
        raised == IF loaded.error # "none" THEN loaded.error
                  ELSE IF storeOutcome # "stored" THEN storeOutcome
                  ELSE "none"
    IN  [ raised |-> raised, tmp |-> loaded.tmp,
          response |->
              IF raised = "none"
              THEN [ status |-> 200, success |-> TRUE, chunks_created |-> chunks,
                     embeddings_created |-> embeddings_created, error |-> None ]
              ELSE IF raised = "FileNotFoundError"
              THEN DocumentFailure("Document not found in S3")
              ELSE IF raised = "ValueError"
              THEN DocumentFailure("Invalid document or configuration")
              ELSE [status |-> 500, detail |-> "Document processing failed"] ]

ProcessDocument(s3_bucket, s3_key, content_type, filename, env, perPage, loadOutcome, storeOutcome) ==
    LET r == process_document(s3_bucket, s3_key, content_type, filename, env,
                              perPage, loadOutcome, storeOutcome, tmpfiles)
    IN  /\ http.kind = "none"
        /\ http' = [ kind |-> "process_document",
                     s3_bucket |-> s3_bucket, s3_key |-> s3_key,
                     file_type |-> DocumentFileType(content_type, filename),
                     env |-> env, load |-> loadOutcome,
                     raised |-> r.raised, response |-> r.response ]
        /\ tmpfiles' = r.tmp
        /\ UNCHANGED <<store, hist, settings, report, sess, fs, s3, restore, snapshot, objects, local, s3call, loadcall, gate, got, toolcall, workers>>

NextDocument ==
    \/ \E b \in {ValidBucket, SpacedBucket}, k \in {PdfKey, TxtKey, << >>},
          c \in ContentTypes, f \in Filenames, env \in FileEnvs,
          n \in ChunksPerPage, l \in LoadOutcomes, s \in StoreOutcomes :
           ProcessDocument(b, k, c, f, env, n, l, s)
    \/ SendResponse

(***************************************************************************)
(* agents/tools.py                                                         *)
(***************************************************************************)
\* The characters str.strip() removes.
StripChars == {" ", "\t", "\n"}

RECURSIVE LStrip(_)
LStrip(text) ==
    IF text # << >> /\ Head(text) \in StripChars THEN LStrip(Tail(text)) ELSE text

RECURSIVE RStrip(_)
RStrip(text) ==
    IF text # << >> /\ text[Len(text)] \in StripChars
    THEN RStrip(SubSeq(text, 1, Len(text) - 1))
    ELSE text

\* str.strip()
Strip(text) == RStrip(LStrip(text))

\* The answers of the model.
Answers ==
    { << >>, <<" ">>, <<"B">>, <<"b">>, <<" ", " ", "B", " ", " ">>, <<" ", "b">>, <<"b", " ">>, <<"\t", "b", "\n">>,
      <<"a", " ", "b">>, <<"A", " ", "B", " ">>, <<"a", " ", " ", "b">>, <<"a", "b">>, <<"c">>, <<"b", ".">> }

\* A variant that compares the answers as they were given.
evaluate_quiz_response_verbatim(response, expected_answer) ==
    LET is_correct == response = expected_answer
    IN  [ correct |-> is_correct,
          confidence_score |-> IF is_correct THEN <<1, 1>> ELSE <<0, 1>>,
          next_recommendation |-> IF is_correct THEN "advance to next topic"
                                  ELSE "review current topic" ]

\* evaluate_quiz_response(response, expected_answer, topic), without the
\* feedback text
evaluate_quiz_response(response, expected_answer) ==
    LET is_correct == Strip(ToLower(response)) = Strip(ToLower(expected_answer))
    IN  [ correct |-> is_correct,
          confidence_score |-> IF is_correct THEN <<1, 1>> ELSE <<0, 1>>,
          next_recommendation |-> IF is_correct THEN "advance to next topic"
                                  ELSE "review current topic" ]

\* x > y and x < y for fractions with positive denominators
RGreater(x, y) == x[1] * y[2] > y[1] * x[2]

RLess(x, y) == x[1] * y[2] < y[1] * x[2]

\* The performance values of the model, in hundredths: below 0, the bands and
\* their borders, above 1.
Performances == { <<k, 100>> : k \in -10..110 }

Topics == { <<"A", "P", "R">>, <<"F", "e", "e", "s">> }

\* A variant whose upper band includes its border.
get_learning_path_inclusive(current_topic, performance) ==
    IF ~RLess(performance, <<8, 10>>)
    THEN [ next_topic |-> <<"A", "d", "v", "a", "n", "c", "e", "d", " ">> \o current_topic,
           difficulty_adjustment |-> "increase",
           reinforcement_needed |-> FALSE ]
    ELSE IF RLess(performance, <<5, 10>>)
    THEN [ next_topic |-> current_topic,
           difficulty_adjustment |-> "decrease",
           reinforcement_needed |-> TRUE ]
    ELSE [ next_topic |-> <<"R", "e", "l", "a", "t", "e", "d", " ", "c", "o", "n", "c", "e", "p", "t", "s", " ", "t", "o", " ">> \o current_topic,
           difficulty_adjustment |-> "maintain",
           reinforcement_needed |-> FALSE ]

\* get_learning_path(learner_id, current_topic, performance)
get_learning_path(current_topic, performance) ==
    IF RGreater(performance, <<8, 10>>)
    THEN [ next_topic |-> <<"A", "d", "v", "a", "n", "c", "e", "d", " ">> \o current_topic,
           difficulty_adjustment |-> "increase",
           reinforcement_needed |-> FALSE ]
    ELSE IF RLess(performance, <<5, 10>>)
    THEN [ next_topic |-> current_topic,
           difficulty_adjustment |-> "decrease",
           reinforcement_needed |-> TRUE ]
    ELSE [ next_topic |-> <<"R", "e", "l", "a", "t", "e", "d", " ", "c", "o", "n", "c", "e", "p", "t", "s", " ", "t", "o", " ">> \o current_topic,
           difficulty_adjustment |-> "maintain",
           reinforcement_needed |-> FALSE ]

EvaluateQuizResponse(response, expected_answer) ==
    /\ toolcall' = [ tool |-> "evaluate_quiz_response",
                     response |-> response, expected_answer |-> expected_answer,
                     result |-> evaluate_quiz_response(response, expected_answer) ]
    /\ UNCHANGED <<store, hist, settings, report, sess, fs, s3, restore, snapshot, objects, local, s3call, tmpfiles, loadcall, http, gate, got, workers>>

GetLearningPath(current_topic, performance) ==
    /\ toolcall' = [ tool |-> "get_learning_path",
                     current_topic |-> current_topic, performance |-> performance,
                     result |-> get_learning_path(current_topic, performance) ]
    /\ UNCHANGED <<store, hist, settings, report, sess, fs, s3, restore, snapshot, objects, local, s3call, tmpfiles, loadcall, http, gate, got, workers>>

InitTools == toolcall = [tool |-> "none"]

NextTools ==
    \/ \E r \in Answers, e \in Answers : EvaluateQuizResponse(r, e)
    \/ \E t \in Topics, p \in Performances : GetLearningPath(t, p)

(***************************************************************************)
(* agents/memory_manager.py: update_learner_progress as the store sees it, *)
(* called from several workers of the service that share the Redis server. *)
(* A call is a GET, the update of the decoded copy, and a SET.             *)
(***************************************************************************)
Workers == {"w1", "w2"}

IdleWorker == [pc |-> "idle"]

InFlight == Cardinality({w \in Workers : workers[w].pc # "idle"})

\* context = await self.get_learner_context(learner_id): the GET.
UpdateGet(w, learner_id, interaction) ==
    /\ workers[w].pc = "idle"
    /\ TotalUpdates + InFlight < MaxUpdates
    /\ workers' = [workers EXCEPT ![w] =
                      [ pc |-> "read", learner_id |-> learner_id,
                        interaction |-> interaction,
                        context |-> get_learner_context(store, learner_id) ]]
    /\ UNCHANGED <<store, hist, settings, report, sess, fs, s3, restore, snapshot, objects, local, s3call, tmpfiles, loadcall, http, gate, got, toolcall>>

\* self.redis_client.set(key, json.dumps(context)): the SET of the copy read
\* by this call's GET, updated.
UpdateSet(w) ==
    /\ workers[w].pc = "read"
    /\ store' = [store EXCEPT ![workers[w].learner_id] =
                    Json(UpdatedContext(workers[w].context, workers[w].interaction))]
    /\ hist' = [hist EXCEPT ![workers[w].learner_id] = Append(@, workers[w].interaction)]
    /\ workers' = [workers EXCEPT ![w] = IdleWorker]
    /\ UNCHANGED <<settings, report, sess, fs, s3, restore, snapshot, objects, local, s3call, tmpfiles, loadcall, http, gate, got, toolcall>>

InitWorkers == workers = [w \in Workers |-> IdleWorker]

NextWorkers ==
    \/ \E w \in Workers, l \in Learners, i \in Interactions : UpdateGet(w, l, i)
    \/ \E w \in Workers : UpdateSet(w)

InitMemory ==
    /\ store \in [Learners -> {NoEntry, Garbage}]
    /\ hist = [l \in Learners |-> << >>]
    /\ got = NoCall

NextMemory ==
    \/ \E l \in Learners, i \in Interactions :
           /\ TotalUpdates < MaxUpdates
           /\ UpdateProgress(l, i)
    \/ \E l \in Learners : GetLearnerContext(l)

NextWindow ==
    \E i \in WindowInteractions :
        /\ TotalUpdates < WindowUpdates
        /\ UpdateProgress("l1", i)

\* No learner has an entry yet.
MemoryEmpty ==
    /\ store = [l \in Learners |-> NoEntry]
    /\ hist = [l \in Learners |-> << >>]
    /\ got = NoCall

Init ==
    /\ MemoryEmpty
    /\ settings = DefaultSettings
    /\ InitSafety
    /\ sess = Idle
    /\ InitRestore
    /\ InitS3Client
    /\ InitLoader
    /\ InitLesson
    /\ InitGateway
    /\ InitTools
    /\ InitWorkers

\* Learners without an entry or with an entry that is no JSON.
InitAnyStore ==
    /\ InitMemory
    /\ settings = DefaultSettings
    /\ InitSafety
    /\ sess = Idle
    /\ InitRestore
    /\ InitS3Client
    /\ InitLoader
    /\ InitLesson
    /\ InitGateway
    /\ InitTools
    /\ InitWorkers

\* Any setting of the feature toggles.
InitAnySettings ==
    /\ MemoryEmpty
    /\ settings \in AllSettings
    /\ InitSafety
    /\ sess = Idle
    /\ InitRestore
    /\ InitS3Client
    /\ InitLoader
    /\ InitLesson
    /\ InitGateway
    /\ InitTools
    /\ InitWorkers

SpecMemory == InitAnyStore /\ [][NextMemory]_vars

SpecWindow == InitAnyStore /\ [][NextWindow]_vars

SpecSession == InitAnyStore /\ [][NextSession]_vars

SpecRestore == Init /\ [][NextRestore]_vars

SpecSafety == InitAnySettings /\ [][NextSafety]_vars

SpecS3Client == Init /\ [][NextS3Client]_vars

SpecLoader == Init /\ [][NextLoader]_vars

SpecLesson == InitAnySettings /\ [][NextLesson]_vars

\* Any configured secret, none included.
InitAnyKey ==
    /\ MemoryEmpty
    /\ settings = DefaultSettings
    /\ InitSafety
    /\ sess = Idle
    /\ InitRestore
    /\ InitS3Client
    /\ InitLoader
    /\ InitLesson
    /\ gate \in {NoRequest(k) : k \in ApiKeys}
    /\ InitTools
    /\ InitWorkers

SpecGateway == InitAnyKey /\ [][NextGateway]_vars

SpecDocument == Init /\ [][NextDocument]_vars

SpecTools == Init /\ [][NextTools]_vars

SpecWorkers == InitAnyStore /\ [][NextWorkers]_vars

(***************************************************************************)
(* Learner memory: properties.                                             *)
(***************************************************************************)
Min(a, b) == IF a < b THEN a ELSE b

StoredContexts == { l \in Learners : store[l].kind = "json" }

\* C4: after any sequence of update_learner_progress calls the stored
\* recent_interactions has at most 10 entries and is exactly the last (up to
\* 10) interactions of the learner, oldest first and newest last.
C4_RecentIsLastTen ==
    \A l \in StoredContexts :
        LET r == store[l].ctx.recent_interactions
            h == hist[l]
        IN  /\ Len(r) <= 10
            /\ Len(r) = Min(Len(h), 10)
            /\ r = SubSeq(h, Len(h) - Len(r) + 1, Len(h))

\* Twelve updates have happened, the window overflowed, and the interaction
\* now first in the window differs from the oldest one, which was dropped.
C4_Witness ==
    /\ Len(hist["l1"]) = 12
    /\ Len(store["l1"].ctx.recent_interactions) = 10
    /\ hist["l1"][1] # hist["l1"][3]
    /\ store["l1"].ctx.recent_interactions[1] = hist["l1"][3]

RECURSIVE SumScores(_)
SumScores(h) ==
    IF h = << >> THEN <<0, 1>>
    ELSE IF IsScoredQuiz(Head(h))
         THEN RAdd(Head(h).score, SumScores(Tail(h)))
         ELSE SumScores(Tail(h))

RECURSIVE CountScoredQuizzes(_)
CountScoredQuizzes(h) ==
    IF h = << >> THEN 0
    ELSE (IF IsScoredQuiz(Head(h)) THEN 1 ELSE 0) + CountScoredQuizzes(Tail(h))

HasTopic(interaction, topic) ==
    "topic" \in DOMAIN interaction /\ interaction.topic = topic

\* The topics of a history, each at the place of its first occurrence.
RECURSIVE TopicsInOrder(_)
TopicsInOrder(h) ==
    IF h = << >> THEN << >>
    ELSE LET front == SubSeq(h, 1, Len(h) - 1)
             last == h[Len(h)]
         IN  IF /\ "topic" \in DOMAIN last
                /\ \A k \in 1..Len(front) : ~HasTopic(front[k], last.topic)
             THEN Append(TopicsInOrder(front), last.topic)
             ELSE TopicsInOrder(front)

\* C6: topics_covered never holds a topic twice: a topic already present is
\* not added again and a new topic is appended once, so the list is the
\* topics of the learner's interactions in order of first occurrence.
C6_TopicsNoDuplicates ==
    \A l \in StoredContexts :
        LET t == store[l].ctx.topics_covered
        IN  /\ \A j, k \in 1..Len(t) : j # k => t[j] # t[k]
            /\ t = TopicsInOrder(hist[l])

\* A topic was repeated (APR three times) and a second topic was added.
C6_Witness ==
    /\ Len(hist["l1"]) = 4
    /\ Cardinality({ k \in 1..4 : HasTopic(hist["l1"][k], "APR") }) = 3
    /\ store["l1"].ctx.topics_covered = <<"APR", "Interest Rates">>

(***************************************************************************)
(* Safety validator: properties.                                           *)
(***************************************************************************)
Validated == report.kind = "validate_content"

\* C1: when the moderation call raises, validate_content reports
\* moderation_flagged = TRUE and passed = FALSE, and
\* _check_content_moderation returns TRUE (the check fails closed).
C1_ModerationFailsClosed ==
    /\ (Validated /\ report.moderation = Raises) =>
           (report.results.moderation_flagged /\ ~report.results.passed)
    /\ (report.kind = "_check_content_moderation" /\ report.moderation = Raises) =>
           report.result = TRUE

\* C7: passed is TRUE exactly when no check failed, that is
\* passed = ~pii_detected /\ ~moderation_flagged /\ constitutional_ai_passed;
\* a check disabled in the settings contributes its passing value, and a
\* report that passed has no issues.
C7_PassedCombinesChecks ==
    Validated =>
        LET r == report.results
        IN  /\ r.passed = (~r.pii_detected /\ ~r.moderation_flagged
                           /\ r.constitutional_ai_passed)
            /\ ~settings.enable_pii_detection => ~r.pii_detected
            /\ ~settings.enable_constitutional_ai => r.constitutional_ai_passed
            /\ r.passed => r.issues = << >>

\* A report that failed on moderation alone, with the PII scan disabled on a
\* content that holds PII.
C7_Witness ==
    /\ Validated
    /\ ~settings.enable_pii_detection
    /\ report.content = SsnText
    /\ report.results.moderation_flagged
    /\ report.results.constitutional_ai_passed
    /\ ~report.results.passed

\* C8: when the judge call raises, constitutional_ai_passed stays TRUE, no
\* violation is added to the issues, and passed is decided by the other two
\* checks alone (the check fails open).
C8_ConstitutionalFailsOpen ==
    (Validated /\ report.judge = Raises) =>
        LET r == report.results
        IN  /\ r.constitutional_ai_passed
            /\ Issue("Constitutional check failed") \notin SeqToSet(r.issues)
            /\ r.passed = (~r.pii_detected /\ ~r.moderation_flagged)

\* The judge call raised and the report passed.
C8_Witness ==
    /\ Validated
    /\ report.judge = Raises
    /\ report.moderation # Raises
    /\ report.results.passed

(***************************************************************************)
(* Agent session: properties.                                              *)
(***************************************************************************)
\* C2: every call of orchestrate_learning_session ends by returning a
\* success result or an error result; no exception reaches the caller,
\* whichever step fails.
C2_NoExceptionEscapes ==
    sess.pc = "done" =>
        /\ sess.outcome.kind = "result"
        /\ sess.outcome.status \in {"success", "error"}

\* C3: within one session the tool-calling loop runs at most
\* agent_max_iterations iterations.
C3_IterationCap ==
    sess.pc # "idle" => sess.iterations <= agent_max_iterations

(***************************************************************************)
(* Vector-store restore: properties.                                       *)
(***************************************************************************)
Restored == restore.kind = "call"

\* C9: restore_from_s3 never writes outside the persisted index directory:
\* every path it extracts to lies in that directory, and when a member of
\* the archive resolves outside it the restore fails and extracts nothing.
C9_RestoreStaysInPersistDir ==
    Restored =>
        /\ \A p \in restore.written : IsUnder(p, PersistPath)
        /\ restore.unsafe => (restore.outcome # "success" /\ restore.written = {})

C11_RoundTrip ==
    (restore.kind = "call" /\ restore.backup) =>
        /\ (restore.downloads = 1 /\ restore.outcome # "S3ClientError")
               => restore.outcome = "success"
        /\ restore.outcome = "success" => restore.same_as_backup

\* A restore of the backup succeeded on a persist directory that differed
\* from the backup (it had been cleared or added to).
C11_Witness ==
    /\ restore.kind = "call"
    /\ restore.backup
    /\ restore.outcome = "success"
    /\ restore.persist_changed
    /\ restore.existed
    /\ restore.same_as_backup

(***************************************************************************)
(* S3 client: properties.                                                  *)
(***************************************************************************)
\* The number of entries of a list whose file_path and key are those of x.
RECURSIVE CountItem(_, _)
CountItem(list, x) ==
    IF list = << >> THEN 0
    ELSE (IF Head(list).file_path = x.file_path /\ Head(list).key = x.key THEN 1 ELSE 0)
         + CountItem(Tail(list), x)

\* C14: batch_upload with a valid bucket calls upload_file for every listed
\* file, in order, whatever happened to the files before it; every input
\* item is in exactly one of the uploaded / failed lists,
\* uploaded_count + failed_count is the number of input files and success
\* is true exactly when failed is empty.
C14_BatchUploadTally ==
    (s3call.op = "batch_upload" /\ _validate_bucket_name(s3call.bucket)) =>
        LET r == s3call.result
        IN  /\ r.outcome = "returned"
            /\ r.attempts = s3call.files
            /\ \A k \in 1..Len(s3call.files) :
                   CountItem(r.uploaded, s3call.files[k]) + CountItem(r.failed, s3call.files[k])
                       = CountItem(s3call.files, s3call.files[k])
            /\ r.uploaded_count = Len(r.uploaded)
            /\ r.failed_count = Len(r.failed)
            /\ r.uploaded_count + r.failed_count = Len(s3call.files)
            /\ r.success = (r.failed = << >>)

\* A batch whose first file failed and whose second file was uploaded.
C14_Witness ==
    /\ s3call.op = "batch_upload"
    /\ _validate_bucket_name(s3call.bucket)
    /\ Len(s3call.files) = 2
    /\ s3call.result.failed_count = 1
    /\ s3call.result.uploaded_count = 1
    /\ s3call.result.failed[1].file_path = s3call.files[1].file_path
    /\ s3call.result.uploaded[1].key = s3call.files[2].key
    /\ ~s3call.result.success

\* C15: a download_file that fails for a missing object raises the
\* ClientError with code 404 / NoSuchKey, and one that fails for any other
\* reason at the store or on the way to it raises S3ClientError.
C15_DownloadFailureForms ==
    s3call.op = "download_file" =>
        /\ s3call.cause = "missing" =>
               (s3call.outcome = "ClientError" /\ s3call.code \in NotFoundCodes)
        /\ s3call.cause \in {"backend", "transport"} => s3call.outcome = "S3ClientError"

\* C16: with a valid bucket and a store that answers, delete_file reports
\* success whether or not the object exists and the object is absent
\* afterwards; deleting an object that is already absent (as a second
\* delete in a row does) succeeds and leaves the bucket as it was.
C16_DeleteIdempotent ==
    ( /\ s3call.op = "delete_file"
      /\ _validate_bucket_name(s3call.bucket)
      /\ s3call.backend = "answered" ) =>
        /\ s3call.outcome = "success"
        /\ s3call.absent_after
        /\ s3call.was_absent => s3call.store_unchanged
        /\ s3call.repeated => s3call.was_absent

\* The second of two successful deletes of the same key in a row.
C16_Witness ==
    /\ s3call.op = "delete_file"
    /\ s3call.repeated
    /\ s3call.outcome = "success"
    /\ s3call.was_absent
    /\ s3call.store_unchanged

\* C17: upload_file with an invalid bucket name raises ValueError, also when
\* the local file is missing; with a valid bucket name and a missing local
\* file it raises FileNotFoundError; in both cases no request is sent and
\* the bucket is unchanged.
C17_UploadRejectsBadInput ==
    s3call.op = "upload_file" =>
        /\ ~_validate_bucket_name(s3call.bucket) =>
               (s3call.outcome = "ValueError" /\ s3call.requests = 0
                /\ s3call.store_unchanged)
        /\ (_validate_bucket_name(s3call.bucket) /\ s3call.file_missing) =>
               (s3call.outcome = "FileNotFoundError" /\ s3call.requests = 0
                /\ s3call.store_unchanged)

\* An upload with an invalid bucket name and a missing local file.
C17_Witness ==
    /\ s3call.op = "upload_file"
    /\ ~_validate_bucket_name(s3call.bucket)
    /\ s3call.file_missing
    /\ s3call.outcome = "ValueError"
    /\ s3call.requests = 0

(***************************************************************************)
(* S3 loaders: properties.                                                 *)
(***************************************************************************)
\* The concatenation of the lists of a list.
RECURSIVE Flatten(_)
Flatten(lists) ==
    IF lists = << >> THEN << >> ELSE Head(lists) \o Flatten(Tail(lists))

\* The documents a load contributes: its documents if it succeeded.
DocumentsOf(r) == IF r.error = "none" THEN r.documents ELSE << >>

\* C12: once the listing is there, S3DirectoryLoader.load makes one loader
\* per selected file, in order, whatever happened to the files before it,
\* does not raise, and returns the concatenation, in order, of the
\* documents of the files that loaded; batch_process_s3_files does the same
\* for its URIs, and success_count + failed_count = total_count and
\* len(errors) = failed_count.
C12_BestEffort ==
    /\ (loadcall.op = "S3DirectoryLoader.load" /\ loadcall.backend = "answered") =>
           LET files == loadcall.selected
               uris == [k \in 1..Len(files) |-> UriOf(DirBucket, files[k])]
           IN  /\ loadcall.error = "none"
               /\ loadcall.attempts = uris
               /\ loadcall.documents =
                      Flatten([k \in 1..Len(files) |->
                          DocumentsOf(LoadFile(uris[k], loadcall.file_type,
                                               loadcall.envs[k], 0))])
    /\ loadcall.op = "batch_process_s3_files" =>
           LET uris == loadcall.s3_uris
               r == loadcall.result
               loads == [k \in 1..Len(uris) |->
                            process_s3_file(uris[k], loadcall.file_type, loadcall.envs[k], 0)]
           IN  /\ r.attempts = uris
               /\ r.documents = Flatten([k \in 1..Len(uris) |-> DocumentsOf(loads[k])])
               /\ r.success_count = Cardinality({k \in 1..Len(uris) : loads[k].error = "none"})
               /\ r.total_count = Len(uris)
               /\ r.success_count + r.failed_count = r.total_count
               /\ Len(r.errors) = r.failed_count

\* A prefix of three files of which the first is gone from the store, the
\* second loads and the third has an extension no loader is known for: the
\* documents returned are those of the second.
C12_Witness ==
    /\ loadcall.op = "S3DirectoryLoader.load"
    /\ loadcall.error = "none"
    /\ Len(loadcall.attempts) = 3
    /\ loadcall.envs[1] = "missing"
    /\ loadcall.envs[3] = "one page"
    /\ Len(loadcall.documents) = 2
    /\ loadcall.documents[1].source = loadcall.attempts[2]

\* C13: when S3FileLoader.load has returned or raised, alone or inside the
\* directory and batch loaders, the temporary file it created is gone.
C13_TempFileRemoved ==
    loadcall.op # "none" => tmpfiles = 0

\* A load whose download succeeded and whose file could not be parsed.
C13_Witness ==
    /\ loadcall.op = "S3FileLoader.load"
    /\ loadcall.env = "undecodable"
    /\ loadcall.error = "RuntimeError"
    /\ tmpfiles = 0

(***************************************************************************)
(* Sanitization: properties.                                               *)
(***************************************************************************)
Sanitized == report.kind = "sanitize_content"

\* The matches of a pattern in a text from position i on, left to right and
\* not overlapping.
RECURSIVE FindAll(_, _, _)
FindAll(re, text, i) ==
    IF i > Len(text) THEN << >>
    ELSE LET ends == MatchEnds(re, 1, text, i)
         IN  IF ends # << >> /\ ends[1] > i
             THEN <<SubSeq(text, i, ends[1] - 1)>> \o FindAll(re, text, ends[1])
             ELSE FindAll(re, text, i + 1)

\* The SSNs at word boundaries in each content of the model.
SsnsOfContents == [c \in Contents |-> FindAll(SsnPattern, c, 1)]

\* C18: for every text in which _detect_pii_list finds nothing,
\* sanitize_content returns the text unchanged.
C18_SanitizeKeepsCleanText ==
    (Sanitized /\ PiiOfContents[report.content] = << >>) =>
        report.result = report.content

\* C19: for every text with an SSN at word boundaries, validate_content
\* (with PII detection enabled) reports pii_detected, and the output of
\* sanitize_content does not contain the digit sequence of that SSN,
\* whatever stands around it.
C19_SsnRedacted ==
    /\ (Validated /\ settings.enable_pii_detection
          /\ Search(SsnPattern, report.content)) => report.results.pii_detected
    /\ Sanitized =>
           \A k \in 1..Len(SsnsOfContents[report.content]) :
               ~Contains(report.result, SsnsOfContents[report.content][k])

(***************************************************************************)
(* POST /generate-lesson: properties.                                      *)
(***************************************************************************)
\* The safety check of the lesson that was generated.
SafetyCheckOfGenerated ==
    validate_content(content_to_validate(http.generated.lesson), http.moderation,
                     http.judge, settings)

\* C20: when the safety check of a generated lesson fails, the request still
\* answers 200 with safety_check.passed = FALSE; with pii_detected the
\* returned content and scenario are the sanitize_content outputs of the
\* generated ones, and without PII the lesson is returned as generated.
C20_SafetyFailureStillAnswers ==
    ( /\ http.kind = "generate_lesson"
      /\ http.generated.kind = "lesson"
      /\ ~SafetyCheckOfGenerated.passed ) =>
        /\ http.response.status = 200
        /\ ~http.response.safety_check.passed
        /\ SafetyCheckOfGenerated.pii_detected =>
               /\ http.response.lesson.content
                      = SanitizedContents[http.generated.lesson.content]
               /\ http.response.lesson.scenario
                      = SanitizedContents[http.generated.lesson.scenario]
        /\ ~SafetyCheckOfGenerated.pii_detected =>
               http.response.lesson = http.generated.lesson

(***************************************************************************)
(* C21: a request to an /api/v1 endpoint, the /agent routes included,      *)
(* reaches its handler only if no secret is configured or its X-API-Key    *)
(* header equals the secret; with a secret configured, a request with a    *)
(* missing or different header is answered 403.                            *)
(***************************************************************************)
C21_ApiKeyEnforced ==
    gate.kind = "request" =>
        /\ gate.routed.handler =>
               (gate.configured = "" \/ gate.api_key_header = gate.configured)
        /\ (gate.configured # "" /\ gate.api_key_header # gate.configured) =>
               gate.routed.status = "403"

(***************************************************************************)
(* C22: a session writes the learner context exactly once, after the agent *)
(* stream has completed, and does so if and only if it returns status      *)
(* 'success'; a session that ends with status 'error' leaves the stored    *)
(* learner context unchanged.                                              *)
(***************************************************************************)
SessionFinishes == sess.pc # "done" /\ sess'.pc = "done"

SessionSucceeds ==
    /\ SessionFinishes
    /\ sess'.outcome.kind = "result"
    /\ sess'.outcome.status = "success"

C22_WriteOnceOnSuccess ==
    [][ /\ (store' # store \/ hist' # hist) <=> SessionSucceeds
        /\ SessionSucceeds =>
               /\ sess.pc = "record"
               /\ hist' = [hist EXCEPT ![sess.learner_id] = Append(@, ChatInteraction)]
               /\ store'[sess.learner_id] # store[sess.learner_id]
               /\ \A l \in Learners \ {sess.learner_id} : store'[l] = store[l]
        /\ (SessionFinishes /\ ~SessionSucceeds) => store' = store
      ]_vars

\* A second session has ended with status 'error' for a learner whose only
\* recorded interaction is the one of an earlier, successful session.
C22_Witness ==
    /\ sess.pc = "done"
    /\ sess.sessions >= 2
    /\ sess.outcome.kind = "result"
    /\ sess.outcome.status = "error"
    /\ Len(hist[sess.learner_id]) = 1
    /\ store[sess.learner_id] # NoEntry

(***************************************************************************)
(* C23: get_learner_context never modifies the store; for a learner with   *)
(* no stored entry, or whose stored entry is not decodable JSON, it        *)
(* returns the default context (the requested learner_id, no topics, level *)
(* 'beginner', average_score 0, quizzes_taken 0, no recent interactions),  *)
(* and otherwise it returns the stored context.                            *)
(***************************************************************************)
IsDefaultFor(context, learner_id) ==
    /\ context.learner_id = learner_id
    /\ context.topics_covered = << >>
    /\ context.current_level = "beginner"
    /\ context.performance_metrics.average_score = <<0, 1>>
    /\ context.performance_metrics.quizzes_taken = 0
    /\ context.recent_interactions = << >>

C23_GetContextReadsOnly ==
    /\ [](got.kind = "get" =>
            IF got.stored.kind = "json"
            THEN got.returned = got.stored.ctx
            ELSE IsDefaultFor(got.returned, got.learner_id))
    /\ [][got' # got => store' = store]_vars

\* The default was returned for the second learner, whose entry does not
\* decode, and the stored context for a learner who has one.
C23_Witness ==
    /\ got.kind = "get"
    /\ got.learner_id = "l2"
    /\ got.stored = Garbage
    /\ store["l2"] = Garbage
    /\ store["l1"].kind = "json"

(***************************************************************************)
(* C24: POST /process-document maps failures by kind: a missing S3 object  *)
(* (FileNotFoundError) or a validation error (ValueError) gives a normal   *)
(* response with success = false, chunks_created = 0, embeddings_created   *)
(* = 0 and an error message; any other failure gives HTTP 500; a success   *)
(* response always has embeddings_created = chunks_created.                *)
(***************************************************************************)
C24_DocumentFailuresByKind ==
    http.kind = "process_document" =>
        LET r == http.response
            soft == /\ r.status = 200
                    /\ r.success = FALSE
                    /\ r.chunks_created = 0
                    /\ r.embeddings_created = 0
                    /\ r.error # None
        IN  /\ http.raised \in {"FileNotFoundError", "ValueError"} => soft
            /\ ( /\ http.env = "missing"
                 /\ http.s3_key # << >>
                 /\ _validate_bucket_name(http.s3_bucket) ) => soft
            /\ http.raised \notin {"none", "FileNotFoundError", "ValueError"} =>
                   r.status = 500
            /\ http.raised = "none" => (r.status = 200 /\ r.success)
            /\ (r.status = 200 /\ r.success) =>
                   r.embeddings_created = r.chunks_created

\* The object of a well-formed request is missing in S3 and the response is
\* the soft failure.
C24_Witness ==
    /\ http.kind = "process_document"
    /\ http.env = "missing"
    /\ http.raised = "FileNotFoundError"
    /\ http.response.status = 200
    /\ http.response.success = FALSE

(***************************************************************************)
(* C25: whenever orchestration fails for POST /agent/chat, whether the     *)
(* orchestrator raises or returns its status 'error' result, the route     *)
(* responds with HTTP 500; every 200 response carries all of response,     *)
(* learner_id and status.                                                  *)
(***************************************************************************)
C25_AgentChatFailureIs500 ==
    http.kind = "agent_chat" =>
        /\ http.outcome.kind = "exception" => http.response.status = 500
        /\ (http.outcome.kind = "result" /\ http.outcome.status = "error") =>
               http.response.status = 500
        /\ http.response.status = 200 =>
               /\ {"response", "learner_id", "status"} \subseteq DOMAIN http.response.body
               /\ http.outcome.kind = "result"
               /\ http.outcome.status = "success"

\* The orchestrator returned its error result and the route answered 500.
C25_Witness ==
    /\ http.kind = "agent_chat"
    /\ http.outcome.kind = "result"
    /\ http.outcome.status = "error"
    /\ http.response.status = 500
    /\ sess.pc = "done"

(***************************************************************************)
(* C26: in POST /generate-lesson a failure to load the vector store or to  *)
(* build the retriever never fails the request: the lesson is generated    *)
(* without retrieved context, and metadata.rag_enabled is true exactly     *)
(* when a retriever was obtained.                                          *)
(***************************************************************************)
RetrieverObtained == http.load = "loaded" /\ http.build = "built"

C26_RagFailureTolerated ==
    http.kind = "generate_lesson" =>
        /\ http.response.status = 200 =>
               (http.response.metadata.rag_enabled <=> RetrieverObtained)
        /\ ~RetrieverObtained =>
               /\ http.context = "No context available"
               /\ ( /\ http.generated.kind = "lesson"
                    /\ {"content", "scenario"} \subseteq DOMAIN http.generated.lesson ) =>
                      http.response.status = 200

\* The store loaded, as_retriever raised, and the lesson went out with
\* rag_enabled false.
C26_Witness ==
    /\ http.kind = "generate_lesson"
    /\ http.load = "loaded"
    /\ http.build = "raises"
    /\ http.response.status = 200
    /\ ~http.response.metadata.rag_enabled

(***************************************************************************)
(* agents/tools.py: properties.                                            *)
(***************************************************************************)
\* `core` is `text` without its surrounding whitespace: text is core between
\* two runs of whitespace, and core neither starts nor ends with whitespace.
IsTrimOf(core, text) ==
    /\ core = << >> \/ (core[1] \notin StripChars /\ core[Len(core)] \notin StripChars)
    /\ \E a \in 0..Len(text) :
           /\ a + Len(core) <= Len(text)
           /\ SubSeq(text, a + 1, a + Len(core)) = core
           /\ \A k \in (1..a) \cup ((a + Len(core) + 1)..Len(text)) :
                  text[k] \in StripChars

\* The two answers are equal after lower-casing and trimming.
SameAnswer(response, expected_answer) ==
    \E core \in { ToLower(SubSeq(response, i, j)) :
                      i \in 1..(Len(response) + 1), j \in 0..Len(response) } :
        /\ IsTrimOf(core, ToLower(response))
        /\ IsTrimOf(core, ToLower(expected_answer))

\* C27: evaluate_quiz_response grades a response correct exactly when it
\* equals the expected answer after lower-casing and trimming surrounding
\* whitespace on both sides; correct goes with confidence_score 1.0 and
\* 'advance to next topic', incorrect with 0.0 and 'review current topic'.
C27_QuizGrading ==
    toolcall.tool = "evaluate_quiz_response" =>
        /\ toolcall.result.correct <=>
               SameAnswer(toolcall.response, toolcall.expected_answer)
        /\ toolcall.result.correct =>
               /\ toolcall.result.confidence_score = <<1, 1>>
               /\ toolcall.result.next_recommendation = "advance to next topic"
        /\ ~toolcall.result.correct =>
               /\ toolcall.result.confidence_score = <<0, 1>>
               /\ toolcall.result.next_recommendation = "review current topic"

\* "  B  " was graded correct against " b".
C27_Witness ==
    /\ toolcall.tool = "evaluate_quiz_response"
    /\ toolcall.response = <<" ", " ", "B", " ", " ">>
    /\ toolcall.expected_answer = <<" ", "b">>
    /\ toolcall.result.correct

\* C28: get_learning_path has three bands: above 0.8 'increase' with next
\* topic 'Advanced <topic>'; below 0.5 'decrease' with the same topic;
\* everything else, exactly 0.5 and exactly 0.8 included, 'maintain';
\* reinforcement_needed is true exactly in the 'decrease' band.
C28_LearningPathBands ==
    toolcall.tool = "get_learning_path" =>
        LET hundredths == toolcall.performance[1]
            r == toolcall.result
        IN  /\ hundredths > 80 =>
                   /\ r.difficulty_adjustment = "increase"
                   /\ r.next_topic = <<"A", "d", "v", "a", "n", "c", "e", "d", " ">> \o toolcall.current_topic
            /\ hundredths < 50 =>
                   /\ r.difficulty_adjustment = "decrease"
                   /\ r.next_topic = toolcall.current_topic
            /\ (hundredths >= 50 /\ hundredths <= 80) =>
                   r.difficulty_adjustment = "maintain"
            /\ r.reinforcement_needed <=> r.difficulty_adjustment = "decrease"

\* Exactly 0.8 was answered with 'maintain'.
C28_Witness ==
    /\ toolcall.tool = "get_learning_path"
    /\ toolcall.performance = <<80, 100>>
    /\ toolcall.result.difficulty_adjustment = "maintain"

(***************************************************************************)
(* C29: no learner update is lost under concurrency: when two              *)
(* update_learner_progress calls for the same learner interleave, the      *)
(* final stored context contains both interactions and quizzes_taken has   *)
(* grown by the number of quiz updates.  Stated once every call has done   *)
(* its SET, against the interactions of the completed calls.               *)
(***************************************************************************)
C29_NoLostUpdate ==
    (\A w \in Workers : workers[w].pc = "idle") =>
        \A l \in Learners :
            hist[l] # << >> =>
                /\ store[l].kind = "json"
                /\ Len(store[l].ctx.recent_interactions) = Min(Len(hist[l]), recent_window)
                /\ \A k \in 1..Len(hist[l]) :
                       Len(hist[l]) <= recent_window =>
                           hist[l][k] \in SeqToSet(store[l].ctx.recent_interactions)
                /\ store[l].ctx.performance_metrics.quizzes_taken
                       = CountScoredQuizzes(hist[l])

(***************************************************************************)
(* C30: a restore_from_s3 that fails, for any reason (backup object        *)
(* missing, download error, or an archive containing an unsafe member      *)
(* path), leaves the previously persisted index directory exactly as it    *)
(* was before the call.                                                    *)
(***************************************************************************)
C30_FailedRestoreKeepsIndex ==
    (restore.kind = "call" /\ restore.outcome # "success") =>
        ~restore.persist_changed

====
